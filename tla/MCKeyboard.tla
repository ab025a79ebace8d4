----------------------------- MODULE MCKeyboard -----------------------------
(* One letter and the space bar; a buffer one longer than the window.      *)
EXTENDS Keyboard

MCUnshifted == [k \in {"A", "sp"} |-> IF k = "A" THEN "a" ELSE " "]
MCShifted   == [k \in {"A", "sp"} |-> IF k = "A" THEN "A" ELSE " "]
=============================================================================
