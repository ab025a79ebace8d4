------------------------------ MODULE Display ------------------------------
(***************************************************************************)
(* The message area of lab2/display.c and the network thread of            *)
(* lab2/lab2.c that fills it: read() returns a chunk of at most            *)
(* BUFFER_SIZE - 1 bytes, display_message draws it character by character, *)
(* one step per turn of its loop.  Nobody else touches rows 0 .. 20.       *)
(* A chunk is what comes before its first '\0', possibly nothing.          *)
(***************************************************************************)
EXTENDS Integers, Sequences, FiniteSets

CONSTANTS
  MSG_AREA_BOTTOM,      \* 20 in the source; the area begins at row 0
  MSG_AREA_COLS,        \* 64 in the source
  ChunkSize,            \* BUFFER_SIZE - 1, 127 in the source
  Glyphs,               \* characters that are drawn
  NL, Blank             \* the newline, and an empty place

ASSUME DisplayAssumption ==
  /\ MSG_AREA_BOTTOM \in Nat /\ MSG_AREA_COLS \in Nat \ {0}
  /\ ChunkSize \in Nat \ {0}
  /\ NL \notin Glyphs /\ Blank \notin Glyphs

VARIABLES
  thread,               \* "reading", "drawing" or "ended"
  msg, p,               \* display_message: the chunk, the next character
  current_msg_row, current_msg_col,
  screen,               \* the message area
  from                  \* history: the row the chunk was (re)started on

area == <<current_msg_row, current_msg_col, screen>>
vars == <<thread, msg, p, area, from>>

Row == 0 .. MSG_AREA_BOTTOM
Col == 0 .. MSG_AREA_COLS - 1

Empty == [q \in Row \X Col |-> Blank]

Chunks == UNION {[1 .. k -> Glyphs \cup {NL}] : k \in 0 .. ChunkSize}

Init ==
  /\ thread = "reading" /\ msg = <<>> /\ p = 1
  /\ current_msg_row = 0 /\ current_msg_col = 0
  /\ screen = Empty /\ from = 0

(* read() returns a chunk, and display_message is called with it.          *)
Receive(m) ==
  /\ thread = "reading"
  /\ thread' = "drawing" /\ msg' = m /\ p' = 1 /\ from' = current_msg_row
  /\ UNCHANGED area

(* read() returns 0 or -1: the thread ends.                                *)
Disconnect == thread = "reading" /\ thread' = "ended" /\ UNCHANGED <<msg, p, area, from>>

-----------------------------------------------------------------------------
(* A bug to be caught: the old characters stay.                            *)
ClearNothing == UNCHANGED screen /\ current_msg_row' = 0 /\ current_msg_col' = 0

(* clear_message_area                                                      *)
Clear == screen' = Empty /\ current_msg_row' = 0 /\ current_msg_col' = 0

(* Bugs to be caught: one row too many, one row too few.                   *)
LastRowLate == current_msg_row = MSG_AREA_BOTTOM + 1
LastRowEarly == current_msg_row >= MSG_AREA_BOTTOM - 1

LastRow == current_msg_row = MSG_AREA_BOTTOM

(* A bug to be caught: only the rest of the chunk is drawn again.          *)
RestartHere == Clear /\ p' = p + 1 /\ from' = 0

(* The chunk does not fit below: begin it again on an empty area.          *)
Restart == Clear /\ p' = 1 /\ from' = 0

Drawing == thread = "drawing" /\ p <= Len(msg) /\ UNCHANGED <<thread, msg>>

Newline ==
  /\ Drawing /\ msg[p] = NL
  /\ \/ LastRow /\ Restart
     \/ /\ ~LastRow
        /\ current_msg_row' = current_msg_row + 1 /\ current_msg_col' = 0
        /\ p' = p + 1
        /\ UNCHANGED <<screen, from>>

FullLine == current_msg_col >= MSG_AREA_COLS

WrapToTop == Drawing /\ msg[p] # NL /\ FullLine /\ LastRow /\ Restart

Puts == thread = "drawing" /\ p <= Len(msg) /\ msg[p] # NL /\ ~(FullLine /\ LastRow)

(* The current place, or the start of the next row.                        *)
Spot == IF FullLine THEN <<current_msg_row + 1, 0>>
        ELSE <<current_msg_row, current_msg_col>>

(* fbputchar there.                                                        *)
Put ==
  /\ Puts /\ UNCHANGED <<thread, msg, from>>
  /\ screen' = [screen EXCEPT ![Spot] = msg[p]]
  /\ current_msg_row' = Spot[1] /\ current_msg_col' = Spot[2] + 1
  /\ p' = p + 1

(* The end of the chunk: the next one begins on a row of its own.          *)
Return ==
  /\ thread = "drawing" /\ p > Len(msg)
  /\ thread' = "reading"
  /\ \/ current_msg_col > 0 /\ LastRow /\ Clear
     \/ /\ current_msg_col > 0 /\ ~LastRow
        /\ current_msg_row' = current_msg_row + 1 /\ current_msg_col' = 0
        /\ UNCHANGED screen
     \/ current_msg_col = 0 /\ UNCHANGED area
  /\ msg' = <<>> /\ p' = 1 /\ from' = 0

Draw == Newline \/ WrapToTop \/ Put \/ Return

Next == (\E m \in Chunks : Receive(m)) \/ Disconnect \/ Draw

(* The thread is scheduled; what the server sends, and when, is open.      *)
Spec == Init /\ [][Next]_vars /\ WF_vars(Draw)

-----------------------------------------------------------------------------
(* Every place that is drawn on is inside the message area: the divider in *)
(* row 21 and the input rows below it stay as they are.                    *)
TypeOK ==
  /\ thread \in {"reading", "drawing", "ended"}
  /\ msg \in Chunks /\ p \in 1 .. Len(msg) + 1
  /\ current_msg_row \in Row /\ current_msg_col \in Col \cup {MSG_AREA_COLS}
  /\ screen \in [Row \X Col -> Glyphs \cup {Blank}] /\ from \in Row

(* Where the i-th character of the chunk belongs: its line begins after    *)
(* the newline before it and is folded every MSG_AREA_COLS characters;     *)
(* Turns(i) is how many rows that takes the chunk down.                    *)
Offset(i) == Cardinality({j \in 1 .. i - 1 : \A k \in j .. i - 1 : msg[k] # NL})

Turns(i) ==
  Cardinality({j \in 1 .. i - 1 : msg[j] = NL}) +
  Cardinality({j \in 1 .. i : /\ msg[j] # NL /\ Offset(j) > 0
                              /\ Offset(j) % MSG_AREA_COLS = 0})

Place(i) == <<from + Turns(i), Offset(i) % MSG_AREA_COLS>>

(* The rows the chunk takes down in all, its trailing newlines included.   *)
AllTurns == Turns(Len(msg)) + IF msg # <<>> /\ msg[Len(msg)] = NL THEN 1 ELSE 0

(* What display_message has drawn is the chunk, laid out in lines from the *)
(* row it began on, in that order and complete: after a restart as well,   *)
(* whatever the area held before.                                          *)
LaidOut == \A i \in 1 .. p - 1 : msg[i] # NL => screen[Place(i)] = msg[i]

(* No character is drawn over another: each one is put on a blank place,   *)
(* and stays there until clear_message_area empties the whole area.        *)
NeverDrawsOver ==
  [][/\ Put => screen' # screen
     /\ \/ screen' = Empty
        \/ \A q \in Row \X Col : screen[q] # Blank => screen'[q] = screen[q]]_vars

(* What is shown is erased only when there is no room: the chunk does not  *)
(* fit below the row it began on, or it has been drawn to its end and ends *)
(* on the last row.                                                        *)
ClearsOnlyWhenFull ==
  [][screen # Empty /\ screen' = Empty =>
       \/ from + AllTurns > MSG_AREA_BOTTOM
       \/ p > Len(msg) /\ from + AllTurns = MSG_AREA_BOTTOM]_vars

(* A chunk that fits into the area is drawn and display_message returns,   *)
(* wherever in the area it begins.                                         *)
FittingReturns ==
  thread = "drawing" /\ AllTurns <= MSG_AREA_BOTTOM ~> thread # "drawing"

(* "Handles wrapping and overflow" (display.c:29): display_message returns *)
(* from every chunk.  It does not: a chunk of more rows than the area has  *)
(* is begun again each time it reaches the end of the area.                *)
EveryReturns == thread = "drawing" ~> thread # "drawing"
=============================================================================
