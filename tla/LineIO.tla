--------------------------------- MODULE LineIO ---------------------------------
(***************************************************************************)
(* internal/lineio/lineio.go: what the read tool shows of a file, and a    *)
(* client that pages through a file by following the footers.  Content is  *)
(* a sequence of characters; an invalid byte of UTF-8 is the character     *)
(* Bad.  The wording of lines and footers is left out, their sizes are     *)
(* not.                                                                    *)
(***************************************************************************)
EXTENDS Integers, FiniteSets, Sequences, SequencesExt

CONSTANTS
  Chars, NL, Bad,  \* characters, among them the newline and the invalid byte
  Width,           \* the bytes a character takes on display
  MarkerWidth,     \* the length of TruncationMarker
  DefaultLines, MaxLineChars, MaxTotalBytes,
  MaxDigits        \* the digits of the largest line number

ASSUME LineAssumption ==
  /\ {NL, Bad} \subseteq Chars /\ NL # Bad
  /\ Width \in [Chars -> 1..4] /\ Width[Bad] = 3
  /\ MarkerWidth \in Nat
  /\ {DefaultLines, MaxLineChars, MaxTotalBytes} \subseteq Nat \ {0}
  /\ MaxDigits \in 1..8
  \* As in production, one line always fits, with its number, tab and newline.
  /\ \A c \in Chars : Width[c] * MaxLineChars + MarkerWidth + MaxDigits + 2
                      <= MaxTotalBytes

VARIABLES
  content,  \* the file
  offset,   \* the client's next offset; 0 when the last footer was empty
  page      \* the result of its last read, NoPage before the first

pageVars == <<offset, page>>

-----------------------------------------------------------------------------
\* The numbers of a finite set, the least first.
InOrder(S) == [k \in 1..Cardinality(S) |->
                 CHOOSE i \in S : Cardinality({j \in S : j <= i}) = k]

\* A newline at the very end ends the last line and opens none.
Body(text) == IF text # <<>> /\ Last(text) = NL THEN Front(text) ELSE text

splitLines(text) ==
  LET body == Body(text)
      cuts == <<0>> \o InOrder({i \in DOMAIN body : body[i] = NL})
                    \o <<Len(body) + 1>>
  IN  IF text = <<>> THEN <<>>
      ELSE [k \in 1..(Len(cuts) - 1) |->
              SubSeq(body, cuts[k] + 1, cuts[k + 1] - 1)]

\* A run of invalid bytes becomes one U+FFFD.
sanitize(line) ==
  LET kept == {i \in DOMAIN line :
                 ~(i > 1 /\ line[i] = Bad /\ line[i - 1] = Bad)}
      order == InOrder(kept)
  IN  [k \in 1..Len(order) |-> line[order[k]]]

Cut(line) == Len(sanitize(line)) > MaxLineChars
Shown(line) == IF Cut(line) THEN SubSeq(sanitize(line), 1, MaxLineChars)
               ELSE sanitize(line)

Digits(n) == 1 + Cardinality({d \in 1..(MaxDigits - 1) : 10 ^ d <= n})
\* len(rendered) + 1: number, tab, display form, newline.
Size(n, line) ==
  LET shown == Shown(line)
      bytes[k \in Nat] == IF k = 0 THEN 0 ELSE bytes[k - 1] + Width[shown[k]]
  IN  Digits(n) + 1 + bytes[Len(shown)]
                + (IF Cut(line) THEN MarkerWidth ELSE 0) + 1

-----------------------------------------------------------------------------
NoPage == [lines |-> <<>>, first |-> 0, last |-> 0, total |-> 0,
           truncated |-> FALSE, reasons |-> {}, next |-> 0]

\* Mutant: the footer looks at the last line only.
NextOffsetAtEOF(last, total, truncated) == IF last >= total THEN 0 ELSE last + 1

\* Mutant: the offset of the next page is the last line's.
NextOffsetZeroBased(last, total, truncated) ==
  IF last >= total /\ ~truncated THEN 0 ELSE IF last = 0 THEN 1 ELSE last

\* buildFooter: the offset to continue with, 0 for no footer.
NextOffset(last, total, truncated) ==
  IF last >= total /\ ~truncated THEN 0 ELSE last + 1

\* How many of the lines from..to fit the byte budget; used[k] is the size of
\* the first k.
Emitted(lines, from, to, used) ==
  Max({k \in 0..(to - from + 1) : used[k] <= MaxTotalBytes})

\* The line that met the size limit was cut before it was dropped, so it
\* counts for truncated and its reason.
Window(lines, from, limit) ==
  LET effective == IF limit > DefaultLines THEN DefaultLines ELSE limit
      to == IF from - 1 + effective > Len(lines) THEN Len(lines)
            ELSE from - 1 + effective
      used[k \in Nat] ==
        IF k = 0 THEN 0 ELSE used[k - 1] + Size(from + k - 1, lines[from + k - 1])
      n == Emitted(lines, from, to, used)
      last == IF n > 0 THEN from + n - 1 ELSE 0
      sizeStop == n < to - from + 1
      seen == from..(IF sizeStop THEN from + n ELSE to)
      truncated == \E i \in seen : Cut(lines[i])
  IN  [lines |-> [k \in 1..n |-> Shown(lines[from + k - 1])],
       first |-> IF n > 0 THEN from ELSE 0,
       last |-> last,
       total |-> Len(lines),
       truncated |-> truncated,
       reasons |-> (IF truncated THEN {"line length"} ELSE {})
              \cup (IF sizeStop THEN {"size"} ELSE {})
              \cup (IF ~sizeStop /\ n = effective /\ last < Len(lines)
                    THEN {IF limit > DefaultLines THEN "line limit"
                          ELSE "requested limit"}
                    ELSE {}),
       next |-> NextOffset(last, Len(lines), truncated)]

Render(text, from, limit) ==
  LET lines == splitLines(text)
  IN  IF from <= Len(lines) THEN Window(lines, from, limit)
      ELSE IF lines = <<>> THEN NoPage
      ELSE [NoPage EXCEPT !.total = Len(lines), !.reasons = {"past end"},
                          !.next = 1]

-----------------------------------------------------------------------------
\* One read call of a client that follows the footers, with any limit.
ReadPage(limit) ==
  /\ offset > 0
  /\ page' = Render(content, offset, limit)
  /\ offset' = page'.next
  /\ UNCHANGED content

-----------------------------------------------------------------------------
(* An empty footer means that everything from the offset on has been shown *)
(* in full, and any other result says why it stopped (lineio.go,           *)
(* RenderResult.Footer, Render and buildFooter).                           *)
FooterHonest ==
  [][\A limit \in 1..(DefaultLines + 1) : ReadPage(limit) =>
       LET lines == splitLines(content)
           rest == [k \in 1..(Len(lines) - offset + 1) |->
                      sanitize(lines[offset + k - 1])]
       IN  /\ offset' = 0 <=> /\ page'.lines = rest
                              /\ offset <= Len(lines) \/ lines = <<>>
           /\ offset' # 0 => page'.reasons # {}]_<<content, pageVars>>

(* Following the footers from line 1 shows the lines one after the other,  *)
(* none left out and none twice, whatever limits the client asks for and   *)
(* whichever limit stops a page, until all have been shown.  Only a last   *)
(* page that cut a line is followed by an empty one, past the end; and only *)
(* after that the lines are shown again, from line 1 (lineio.go, Render    *)
(* and buildFooter).                                                       *)
PagesConsecutive ==
  [][\A limit \in 1..(DefaultLines + 1) : ReadPage(limit) =>
       LET total == Len(splitLines(content))
       IN  /\ page'.lines # <<>> =>
                page'.first = IF page.lines = <<>> THEN 1 ELSE page.last + 1
           /\ page'.lines = <<>> =>
                page.last = total /\ (total # 0 => page.truncated)
    ]_<<content, pageVars>>
=============================================================================
