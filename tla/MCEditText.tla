------------------------------ MODULE MCEditText ------------------------------
(* Instances of EditText for TLC: an ordinary character, a newline, an     *)
(* invalid byte and two control characters; edits that overlap themselves, *)
(* span a line end, change nothing or contain what they replace.           *)
EXTENDS EditText

CONSTANTS x, c1, c2

MCChars == {x, NL, Bad, c1, c2}
MCWidth == [c \in MCChars |-> IF c = Bad THEN 3 ELSE 1]
MCEdits == [old: {<<>>, <<x>>, <<x, x>>, <<NL>>},
            new: {<<>>, <<x>>, <<x, NL>>}, all: BOOLEAN]
=============================================================================
