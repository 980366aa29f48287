-------------------------------- MODULE EditText --------------------------------
(***************************************************************************)
(* A client at work on the text of one file: it reads the file page by     *)
(* page, edits it, or writes it anew and gets the warnings about control   *)
(* characters.  The path lock and the markers that surround each call are  *)
(* module FileTools; here one call runs at a time.                         *)
(***************************************************************************)
EXTENDS EditEngine, ContentWarn

\* The longest content, and the contents a write may bring.
CONSTANT MaxLength

ASSUME LengthAssumption == MaxLength \in Nat

Contents == BoundedSeq(Chars, MaxLength)

vars == <<content, pageVars, engineVars>>

-----------------------------------------------------------------------------
\* Read starts at line 1.
StartReading ==
  /\ phase = "idle"
  /\ phase' = "reading" /\ offset' = 1
  /\ UNCHANGED <<content, page, cur, edit, index, off, hits, answer>>

Read(limit) ==
  /\ phase = "reading"
  /\ ReadPage(limit)
  /\ UNCHANGED engineVars

\* The footer was empty.
StopReading ==
  /\ phase = "reading" /\ offset = 0
  /\ phase' = "idle" /\ page' = NoPage
  /\ UNCHANGED <<content, offset, cur, edit, index, off, hits, answer>>

\* Edit and MultiEdit: the engine starts on the bytes of the file.
StartEdit(e) ==
  /\ phase = "idle"
  /\ phase' = "apply" /\ cur' = content /\ edit' = e /\ index' = 1
  /\ UNCHANGED <<content, pageVars, off, hits, answer>>

Back == /\ phase' = "idle" /\ edit' = NoEdit /\ index' = 0
        /\ off' = 0 /\ hits' = <<>> /\ cur' = <<>> /\ answer' = NoAnswer

\* The edited content is written (up to the bound).
FinishEdit ==
  /\ phase = "applied" /\ Len(cur) <= MaxLength
  /\ content' = cur
  /\ Back
  /\ UNCHANGED pageVars

\* The error is answered, the engine's or that of a later step of the tool.
ReturnError ==
  /\ phase \in {"refused", "applied"}
  /\ Back
  /\ UNCHANGED <<content, pageVars>>

\* Write: the text is stored as it came; the answer carries the warning about
\* it.
WriteText(text) ==
  /\ phase = "idle"
  /\ phase' = "written"
  /\ content' = text
  /\ UNCHANGED <<pageVars, cur, edit, index, off, hits, answer>>

ReturnWarning ==
  /\ phase = "written"
  /\ Back
  /\ UNCHANGED <<content, pageVars>>

Init ==
  /\ content = <<>> /\ offset = 0 /\ page = NoPage
  /\ phase = "idle" /\ cur = <<>> /\ edit = NoEdit /\ index = 0
  /\ off = 0 /\ hits = <<>> /\ answer = NoAnswer

Engine == /\ Apply \/ CountMatches \/ Decide
          /\ UNCHANGED pageVars
Reading == \/ \E limit \in 1..(DefaultLines + 1) : Read(limit)
           \/ StopReading

Next == \/ StartReading \/ Reading
        \/ \E e \in Edits : StartEdit(e)
        \/ \E e \in Edits : NextEdit(e) /\ UNCHANGED pageVars
        \/ Engine \/ FinishEdit \/ ReturnError
        \/ \E text \in Contents : WriteText(text)
        \/ ReturnWarning

Spec == Init /\ [][Next]_vars

-----------------------------------------------------------------------------
(* A warning names places where a reader finds these characters: under the *)
(* line number of read, in the column counted in characters; each place    *)
(* once, and the number at its end is that of the places not named         *)
(* (contentwarn.go, Check and Render; lineio.go, splitLines).              *)
WarningsPointAtCharacters ==
  phase = "written" =>
    LET lines == splitLines(content)
        warning == Warning(Check(content))
        places == {warning.listed[k] : k \in DOMAIN warning.listed}
        found == {i \in DOMAIN content : content[i] \in Controls}
    IN  /\ \A p \in places : /\ p.line \in DOMAIN lines
                             /\ p.col \in DOMAIN lines[p.line]
                             /\ lines[p.line][p.col] = p.char
                             /\ p.char \in Controls
        /\ Cardinality(places) = Len(warning.listed)
        /\ Len(warning.listed) + warning.more = Cardinality(found)
        /\ found # {} => places # {}
=============================================================================
