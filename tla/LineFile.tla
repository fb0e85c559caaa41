------------------------------ MODULE LineFile ------------------------------
(***************************************************************************)
(* A file to which lines are appended, as the offline queue and the        *)
(* journal do it: write! with "{}\n" writes the text and then the newline, *)
(* two writes of which each may fail or be the last one of the process.    *)
(* The reader skips lines that do not parse; a file with a text that ends  *)
(* inside a character it cannot read at all (read_to_string).              *)
(***************************************************************************)
EXTENDS Naturals

(* A line is the number of what was written: parsed are the lines with     *)
(* their newline that can be read, open is what stands behind the last     *)
(* newline.                                                                *)
Empty == [parsed |-> {}, open |-> {}, utf8 |-> TRUE]
Fragment == 0

(* A last line without its newline is read, as long as it is one text.     *)
Whole(f) == f.parsed \cup {e \in f.open \ {Fragment} : f.open = {e}}
Readable(f) == IF f.utf8 THEN Whole(f) ELSE {}

WithText(f, e) == [f EXCEPT !.open = @ \cup {e}]
WithNewline(f) == [f EXCEPT !.parsed = Whole(f), !.open = {}]

(* A part of the text, which may end inside a character.                   *)
CutTexts(f) == {WithText(f, Fragment), [WithText(f, Fragment) EXCEPT !.utf8 = FALSE]}
=============================================================================
