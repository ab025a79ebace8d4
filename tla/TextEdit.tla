------------------------------ MODULE TextEdit ------------------------------
(***************************************************************************)
(* What the line editor of lab2/keyboard.c promises: a text of at most     *)
(* MaxLength characters and a cursor in it.  Typing inserts at the cursor, *)
(* backspace takes the character before it, sending empties the text.      *)
(***************************************************************************)
EXTENDS Integers, Sequences

CONSTANTS MaxLength, Char

VARIABLES text, cursor

Before == SubSeq(text, 1, cursor)
After  == SubSeq(text, cursor + 1, Len(text))

Init == text = <<>> /\ cursor = 0

(* k characters, now to be found before the cursor, are new.               *)
Insert(k) ==
  /\ Len(text) + k <= MaxLength
  /\ cursor' = cursor + k
  /\ text' = Before \o SubSeq(text', cursor + 1, cursor + k) \o After
  /\ \A i \in cursor + 1 .. cursor + k : text'[i] \in Char

Backspace ==
  /\ cursor > 0
  /\ text' = SubSeq(text, 1, cursor - 1) \o After
  /\ cursor' = cursor - 1

Move == text' = text /\ cursor' \in {cursor - 1, cursor + 1} \cap 0 .. Len(text)

Clear == text' = <<>> /\ cursor' = 0

(* A key inserts one character, or as many of four as there is room for.   *)
Next == (\E k \in 1 .. 4 : Insert(k)) \/ Backspace \/ Move \/ Clear

Spec == Init /\ [][Next]_<<text, cursor>>
=============================================================================
