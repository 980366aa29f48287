------------------------------- MODULE MCPublish -------------------------------
(* Instances of Publish for TLC: every item works for the same token.      *)
EXTENDS Publish, TLC

CONSTANT Token

OneToken == {Token}
SameToken == [i \in Items |-> Token]

\* Items do the same for the same token, and images are only compared.
Symmetric == Permutations(Items) \cup Permutations(Images)
=============================================================================
