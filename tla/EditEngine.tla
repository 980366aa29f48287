------------------------------- MODULE EditEngine -------------------------------
(***************************************************************************)
(* internal/editengine/engine.go: ApplyOnce and ApplyMany, the exact match *)
(* and replace behind edit and multi_edit, with the counting loop step by  *)
(* step.  An edit call of the client names its edits one by one, which is  *)
(* the array of ApplyMany read when it is needed; offsets count from 0, as *)
(* in the code.  EditText composes it with the other text components.      *)
(***************************************************************************)
EXTENDS LineIO

CONSTANTS Edits, MaxEdits, maxAmbiguousLines

\* old_string, new_string and replace_all.
ASSUME EditAssumption ==
  /\ Edits \subseteq [old: Seq(Chars), new: Seq(Chars), all: BOOLEAN]
  /\ {MaxEdits, maxAmbiguousLines} \subseteq Nat \ {0}

VARIABLES
  phase,  \* idle, reading or written (EditText), or the place in ApplyOnce:
          \* apply, scan, decide, applied, refused
  cur,    \* the content as edited so far
  edit,   \* the edit being applied
  index,  \* its number
  off,    \* countMatches: where the search goes on
  hits,   \* the offsets found; the code keeps their number and the first few
  answer  \* the refusal: error and line numbers

engineVars == <<phase, cur, edit, index, off, hits, answer>>

NoEdit == [old |-> <<>>, new |-> <<>>, all |-> FALSE]
NoAnswer == [err |-> "none", lines |-> <<>>]

-----------------------------------------------------------------------------
Occurs(text, old, i) ==
  i + Len(old) <= Len(text) /\ SubSeq(text, i + 1, i + Len(old)) = old

\* bytes.Index from off on: the offsets it chooses from.
Found(text, old, from) ==
  {i \in from..(Len(text) - Len(old)) : Occurs(text, old, i)}

\* bytes.ReplaceAll: from left to right, each occurrence not overlapping the
\* one before it.
AllReplaced(text, old, new) ==
  LET rest[i \in 0..Len(text)] ==
        IF i = Len(text) THEN <<>>
        ELSE IF Occurs(text, old, i) THEN new \o rest[i + Len(old)]
        ELSE <<text[i + 1]>> \o rest[i + 1]
  IN  rest[0]

\* bytes.Replace with n = 1, of a text that has an occurrence.
FirstReplaced(text, old, new) ==
  LET i == Min(Found(text, old, 0))
  IN  SubSeq(text, 1, i) \o new \o SubSeq(text, i + Len(old) + 1, Len(text))

Replaced(text, e) == IF e.all THEN AllReplaced(text, e.old, e.new)
                     ELSE FirstReplaced(text, e.old, e.new)

\* Mutant: the newline that a match starts with counts.
lineNumbersInclusive(text, offsets) ==
  [k \in DOMAIN offsets |->
     1 + Cardinality({i \in 1..(offsets[k] + 1) : i <= Len(text) /\ text[i] = NL})]

lineNumbers(text, offsets) ==
  [k \in DOMAIN offsets |->
     1 + Cardinality({i \in 1..offsets[k] : text[i] = NL})]

FirstOffsets(all) == IF Len(all) > maxAmbiguousLines
                     THEN SubSeq(all, 1, maxAmbiguousLines) ELSE all

-----------------------------------------------------------------------------
Refuse(err, lines) ==
  /\ phase' = "refused"
  /\ answer' = [err |-> err, lines |-> lines]
  /\ UNCHANGED <<content, cur, edit, index, off, hits>>

\* Mutant: an empty old_string is searched for.
ApplyUnchecked ==
  /\ phase = "apply"
  /\ \/ edit.old = edit.new /\ Refuse("ENoop", <<>>)
     \/ /\ edit.old # edit.new
        /\ phase' = "scan" /\ off' = 0 /\ hits' = <<>>
        /\ UNCHANGED <<content, cur, edit, index, answer>>

\* The checks of ApplyOnce that need no search.
Apply ==
  /\ phase = "apply"
  /\ \/ edit.old = <<>> /\ Refuse("EEmptyOld", <<>>)
     \/ edit.old # <<>> /\ edit.old = edit.new /\ Refuse("ENoop", <<>>)
     \/ /\ edit.old # <<>> /\ edit.old # edit.new
        /\ phase' = "scan" /\ off' = 0 /\ hits' = <<>>
        /\ UNCHANGED <<content, cur, edit, index, answer>>

\* Mutant: the search goes on one byte after a match, and overlapping matches
\* count.
CountMatchesOverlapping ==
  /\ phase = "scan"
  /\ \/ /\ Found(cur, edit.old, off) # {}
        /\ LET i == Min(Found(cur, edit.old, off))
           IN  hits' = Append(hits, i) /\ off' = i + 1
        /\ UNCHANGED phase
     \/ /\ Found(cur, edit.old, off) = {}
        /\ phase' = "decide"
        /\ UNCHANGED <<off, hits>>
  /\ UNCHANGED <<content, cur, edit, index, answer>>

\* One round of countMatches; without a further match, or past the last place
\* for one, the loop ends.
CountMatches ==
  /\ phase = "scan"
  /\ \/ /\ Found(cur, edit.old, off) # {}
        /\ LET i == Min(Found(cur, edit.old, off))
           IN  hits' = Append(hits, i) /\ off' = i + Len(edit.old)
        /\ UNCHANGED phase
     \/ /\ Found(cur, edit.old, off) = {}
        /\ phase' = "decide"
        /\ UNCHANGED <<off, hits>>
  /\ UNCHANGED <<content, cur, edit, index, answer>>

\* Mutant: the ambiguity check is left out.
DecideFirst ==
  /\ phase = "decide"
  /\ \/ Len(hits) = 0 /\ Refuse("ENoMatch", <<>>)
     \/ /\ Len(hits) > 0
        /\ cur' = Replaced(cur, edit)
        /\ phase' = "applied"
        /\ UNCHANGED <<content, edit, index, off, hits, answer>>

\* The rest of ApplyOnce.
Decide ==
  /\ phase = "decide"
  /\ \/ Len(hits) = 0 /\ Refuse("ENoMatch", <<>>)
     \/ ~edit.all /\ Len(hits) > 1
        /\ Refuse("EAmbiguous", lineNumbers(cur, FirstOffsets(hits)))
     \/ /\ Len(hits) = 1 \/ (edit.all /\ Len(hits) > 0)
        /\ cur' = Replaced(cur, edit)
        /\ phase' = "applied"
        /\ UNCHANGED <<content, edit, index, off, hits, answer>>

\* The next edit of the array works on what the ones before it made.
NextEdit(e) ==
  /\ phase = "applied" /\ index < MaxEdits
  /\ phase' = "apply" /\ edit' = e /\ index' = index + 1
  /\ off' = 0 /\ hits' = <<>>
  /\ UNCHANGED <<content, cur, answer>>

-----------------------------------------------------------------------------
(* Every variable has its type, and the search for matches never runs with *)
(* an empty old_string, with which it would not end, nor for an edit that  *)
(* changes nothing (engine.go, ApplyOnce).                                 *)
EngineTypeOK ==
  /\ phase \in {"idle", "reading", "written", "apply", "scan", "decide",
                "applied", "refused"}
  /\ {content, cur} \subseteq Seq(Chars)
  /\ edit \in Edits \cup {NoEdit}
  /\ index \in 0..MaxEdits
  /\ off \in Nat /\ hits \in Seq(Nat)
  /\ answer.err \in {"none", "EEmptyOld", "ENoop", "ENoMatch", "EAmbiguous"}
  /\ answer.lines \in Seq(Nat)
  /\ phase \in {"scan", "decide", "applied"} =>
       edit.old # <<>> /\ edit.old # edit.new

(* The matches counted are occurrences of old_string from left to right,   *)
(* no two overlap, and every occurrence the search has passed is one of    *)
(* them or overlaps one: an edit accepted as unique leaves no second       *)
(* occurrence that does not share bytes with the one it replaced           *)
(* (engine.go, countMatches and ApplyOnce).                                *)
MatchesMaximal ==
  phase \in {"scan", "decide"} =>
    /\ \A k \in DOMAIN hits :
         /\ Occurs(cur, edit.old, hits[k])
         /\ hits[k] + Len(edit.old) <= off
         /\ k > 1 => hits[k - 1] + Len(edit.old) <= hits[k]
    /\ \A i \in Found(cur, edit.old, 0) :
         \/ i >= off /\ phase = "scan"
         \/ \E k \in DOMAIN hits : /\ hits[k] < i + Len(edit.old)
                                   /\ i < hits[k] + Len(edit.old)

\* The text with the matches at the given offsets replaced.
Spliced(text, e, offsets) ==
  LET from(k) == IF k = 0 THEN 0 ELSE offsets[k] + Len(e.old)
      to(k) == IF k = Len(offsets) THEN Len(text) ELSE offsets[k + 1]
      kept(k) == SubSeq(text, from(k) + 1, to(k))
  IN  FlattenSeq([k \in 1..(2 * Len(offsets) + 1) |->
                    IF k % 2 = 1 THEN kept((k - 1) \div 2) ELSE e.new])

(* What was counted is what was replaced: the result of an edit is the     *)
(* content with the counted matches replaced and nothing else changed, one *)
(* match unless replace_all asks for all; and the file itself changes only *)
(* at the end of the whole call (engine.go, ApplyOnce and ApplyMany).      *)
ReplacedAsCounted ==
  [][phase = "decide" /\ phase' = "applied" =>
       /\ cur' = Spliced(cur, edit, hits)
       /\ edit.all \/ Len(hits) = 1
       /\ content' = content]_<<content, engineVars>>

(* The lines an ambiguity error names are the numbers under which read     *)
(* shows the first matches, in the content the failing edit met: the match *)
(* starts in that line or at the newline that ends it (engine.go,          *)
(* lineNumbers; lineio.go, splitLines).                                    *)
AmbiguousLinesReadable ==
  answer.err = "EAmbiguous" =>
    LET lines == splitLines(cur)
        start[n \in 1..Len(lines)] ==
          IF n = 1 THEN 0 ELSE start[n - 1] + Len(lines[n - 1]) + 1
    IN  /\ answer.lines # <<>>
        /\ \A k \in DOMAIN answer.lines :
             LET n == answer.lines[k]
             IN  /\ n \in 1..Len(lines)
                 /\ start[n] <= hits[k] /\ hits[k] <= start[n] + Len(lines[n])
=============================================================================
