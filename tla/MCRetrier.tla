------------------------------- MODULE MCRetrier -------------------------------
(* Instances of Retrier for TLC.  There are as many Roots as can be in use *)
(* or remembered at once, so that os.OpenRoot always has one to return.    *)
EXTENDS Retrier

ASSUME EnoughRoots ==
  Cardinality(Roots) > Cardinality(Dirs) + Cardinality(Workers)
=============================================================================
