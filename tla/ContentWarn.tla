------------------------------ MODULE ContentWarn ------------------------------
(***************************************************************************)
(* internal/contentwarn/contentwarn.go: the control characters the write   *)
(* and edit tools warn about, with their places in the text.               *)
(***************************************************************************)
EXTENDS LineIO

CONSTANTS Controls, maxListedPositions

ASSUME WarnAssumption == /\ Controls \subseteq Chars \ {NL, Bad}
                         /\ maxListedPositions \in Nat \ {0}

\* Mutant: the column is not set back at a newline.
PositionOneLine(text, i) ==
  [char |-> text[i],
   line |-> 1 + Cardinality({j \in 1..(i - 1) : text[j] = NL}),
   col |-> i]

\* Line and column of the i-th character, as the one pass over the text
\* counts them.
Position(text, i) ==
  LET breaks == {j \in 1..(i - 1) : text[j] = NL}
  IN  [char |-> text[i], line |-> 1 + Cardinality(breaks),
       col |-> i - Max(breaks \cup {0})]

\* The places of the control characters, in the order of the text.
Check(text) ==
  LET places == InOrder({i \in DOMAIN text : text[i] \in Controls})
  IN  [k \in DOMAIN places |-> Position(text, places[k])]

\* contentwarn.Render: grouped by character in the order of their first
\* places, listed up to the limit; the rest is a number.
Warning(findings) ==
  LET firsts == InOrder({k \in DOMAIN findings :
                  \A j \in 1..(k - 1) : findings[j].char # findings[k].char})
      groups == [g \in DOMAIN firsts |->
                  InOrder({k \in DOMAIN findings :
                             findings[k].char = findings[firsts[g]].char})]
      grouped == FlattenSeq(groups)
      n == Min({Len(grouped), maxListedPositions})
  IN  [listed |-> [k \in 1..n |-> findings[grouped[k]]],
       more |-> Len(findings) - n]
=============================================================================
