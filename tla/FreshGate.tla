------------------------------ MODULE FreshGate ------------------------------
(***************************************************************************)
(* What the freshness gate promises, without locks, markers, stats, temp   *)
(* files or retries: each path is a register that a token may replace only *)
(* if the content being replaced is the one the token last saw or wrote.   *)
(* Changes made outside the server are counted, so a step of the server    *)
(* can never be excused as one of them.                                    *)
(***************************************************************************)
EXTENDS Naturals

CONSTANTS Tokens, Paths, Data, Absent, Dir, Nothing

VARIABLES file,  \* the content of every path, or Absent, or Dir
          seen,  \* the content each token last saw or wrote at a path
          ext    \* number of changes made outside the server

vars == <<file, seen, ext>>

Init == /\ file \in [Paths -> Data \cup {Absent, Dir}]
        /\ seen = [t \in Tokens |-> [p \in Paths |-> Nothing]]
        /\ ext = 0

Sees(t, p, d) == seen' = [seen EXCEPT ![t][p] = d]
Holds(p, f) == file' = [file EXCEPT ![p] = f]

\* A read returns the current content; only an outside change can overtake it.
Observe(t, p, d) == /\ d = file[p] \/ ext > 0
                    /\ Sees(t, p, d)
                    /\ UNCHANGED <<file, ext>>

Create(t, p, d) == /\ file[p] = Absent
                   /\ Holds(p, d)
                   /\ Sees(t, p, d)
                   /\ UNCHANGED ext

Replace(t, p, d) == /\ file[p] \in Data
                    /\ seen[t][p] = file[p]
                    /\ Holds(p, d)
                    /\ Sees(t, p, d)
                    /\ UNCHANGED ext

Remove(t, p) == /\ file[p] \in Data
                /\ seen[t][p] = file[p]
                /\ Holds(p, Absent)
                /\ UNCHANGED <<seen, ext>>

MakeDir(p) == /\ file[p] = Absent
              /\ Holds(p, Dir)
              /\ UNCHANGED <<seen, ext>>

Outside(p, f) == /\ file[p] # Dir
                 /\ Holds(p, f)
                 /\ ext' = ext + 1
                 /\ UNCHANGED seen

Next ==
  \E p \in Paths :
    \/ \E t \in Tokens, d \in Data : Observe(t, p, d) \/ Create(t, p, d)
                                     \/ Replace(t, p, d)
    \/ \E t \in Tokens : Remove(t, p)
    \/ MakeDir(p)
    \/ \E f \in Data \cup {Absent} : Outside(p, f)

Spec == Init /\ [][Next]_vars
=============================================================================
