----------------------------- MODULE MCFileTools -----------------------------
(* Instances of FileTools for TLC: two tokens, the second with the request *)
(* r2, the first with the others, and contents of one size, so that only   *)
(* mtimes tell them apart.                                                 *)
EXTENDS FileTools, TLC

CONSTANTS t1, t2, r1, r2, r3, c1, c2

MCTokenOf == [r \in Reqs |-> IF r = r2 THEN t2 ELSE t1]
MCSizeOf == [c \in Contents |-> 1]
Symmetric == Permutations(Contents)
=============================================================================
