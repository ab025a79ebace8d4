---------------------------- MODULE InputBuffer ----------------------------
(***************************************************************************)
(* The input line of lab2/keyboard.c and the screen row on which           *)
(* display_user_input of lab2/display.c draws it.  The buffer is the C     *)
(* array with its terminating NUL, the length and the cursor; the          *)
(* operators are the C functions, each with the redrawing it ends with.    *)
(***************************************************************************)
EXTENDS Integers, Sequences

CONSTANTS
  INPUT_BUFFER_SIZE,    \* 256 in the source
  MSG_AREA_COLS,        \* 64 in the source
  Char,                 \* characters that can be typed
  NUL, Space, Bar       \* the terminator, the blank and the cursor's mark

ASSUME BufferAssumption ==
  /\ INPUT_BUFFER_SIZE \in Nat \ {0}
  /\ MSG_AREA_COLS \in Nat /\ MSG_AREA_COLS > 1
  /\ NUL \notin Char /\ Space \in Char

VARIABLES input,        \* [buffer, length, cursor]: the three C variables
          row           \* what is drawn on the input row

Index == 0 .. INPUT_BUFFER_SIZE - 1
Column == 0 .. MSG_AREA_COLS - 1

InputInit ==
  /\ input = [buffer |-> [i \in Index |-> NUL], length |-> 0, cursor |-> 0]
  /\ row = [c \in Column |-> Space]

(* A bug to be caught: the window starts at the end of the text.           *)
DrawEnd(s) ==
  LET width == MSG_AREA_COLS - 1
      start == IF s.length > width THEN s.length - width ELSE 0
  IN [c \in Column |->
        IF c = s.cursor - start THEN Bar
        ELSE IF c < width /\ start + c < s.length THEN s.buffer[start + c]
        ELSE Space]

(* display_user_input: clear the row, slide the window so that the cursor  *)
(* is in it, draw the text, draw the cursor over it.                       *)
Draw(s) ==
  LET width == MSG_AREA_COLS - 1
      start == IF s.cursor > width THEN s.cursor - width ELSE 0
  IN [c \in Column |->
        IF c = s.cursor - start THEN Bar
        ELSE IF c < width /\ start + c < s.length THEN s.buffer[start + c]
        ELSE Space]

(* Bugs to be caught: the shift to the right stops one short of the        *)
(* cursor; the text is not terminated.                                     *)
MovedRightShort(s) == s.cursor + 2 .. s.length
TerminatedNot(b, n) == b

Full(s) == s.length >= INPUT_BUFFER_SIZE - 1

(* The places the loop of input_buf_add_char copies to.                    *)
MovedRight(s) == s.cursor + 1 .. s.length

TerminatedAt(b, n) == [b EXCEPT ![n] = NUL]

(* input_buf_add_char; a full buffer is left alone.                        *)
AddChar(s, ch) ==
  IF Full(s) THEN s
  ELSE [buffer |-> TerminatedAt([i \in Index |->
                      IF i = s.cursor THEN ch
                      ELSE IF i \in MovedRight(s) THEN s.buffer[i - 1]
                      ELSE s.buffer[i]], s.length + 1),
        length |-> s.length + 1, cursor |-> s.cursor + 1]

(* input_buf_delete_char; nothing before the cursor, nothing to delete.    *)
DeleteChar(s) ==
  IF s.cursor = 0 THEN s
  ELSE [buffer |-> TerminatedAt([i \in Index |->
                      IF i \in s.cursor - 1 .. s.length - 2 THEN s.buffer[i + 1]
                      ELSE s.buffer[i]], s.length - 1),
        length |-> s.length - 1, cursor |-> s.cursor - 1]

Cleared(s) == [buffer |-> TerminatedAt(s.buffer, 0), length |-> 0, cursor |-> 0]

MoveLeft(s)  == IF s.cursor > 0 THEN [s EXCEPT !.cursor = @ - 1] ELSE s
MoveRight(s) == IF s.cursor < s.length THEN [s EXCEPT !.cursor = @ + 1] ELSE s

(* Every function that changes the line redraws it, and no other does.     *)
Becomes(s) ==
  /\ input' = s
  /\ row' = IF s = input THEN row ELSE Draw(s)

-----------------------------------------------------------------------------
(* The line as a sequence of characters.                                   *)
Text == [i \in 1 .. input.length |-> input.buffer[i - 1]]

(* The C string in the buffer is the line: keyboard.c prints it as one.    *)
Terminated ==
  /\ input.buffer[input.length] = NUL
  /\ \A i \in 0 .. input.length - 1 : input.buffer[i] # NUL

(* What the user must see: the cursor's mark, to its left the characters   *)
(* before the cursor, as many as fit, and to its right those after it      *)
(* except the first, which the mark of display_user_input covers.          *)
RowShowsLine ==
  \/ Text = <<>> /\ row = [c \in Column |-> Space]
  \/ \E at \in Column :
       /\ row[at] = Bar
       /\ at = input.cursor \/ at = MSG_AREA_COLS - 1
       /\ \A c \in 0 .. at - 1 : row[c] = Text[input.cursor - at + c + 1]
       /\ \A c \in at + 1 .. MSG_AREA_COLS - 2 :
            LET i == input.cursor - at + c + 1
            IN row[c] = IF i <= Len(Text) THEN Text[i] ELSE Space
=============================================================================
