--------------------------- MODULE MCCollatzBench ---------------------------
(* The numbers of the board: 10 switches and an index of 8 bits, without   *)
(* the 0 and the 1 of which range.sv gets no length.                       *)
EXTENDS CollatzBench

BoardNumbers == 2 .. 1023 + 255
=============================================================================
