------------------------------ MODULE Hex7seg ------------------------------
(***************************************************************************)
(* lab1/hex7seg.sv: a hexadecimal digit on seven active-low segments.  The *)
(* table is the source's; Shape is the reference it is compared with, the  *)
(* segments that draw the digit, 0 (top) to 6 (middle), clockwise.         *)
(***************************************************************************)
EXTENDS Integers, Sequences

(* 7'h40, 7'h79, 7'h24, 7'h30, ... in the order of the case statement.     *)
table == <<64, 121, 36, 48, 25, 18, 2, 120, 0, 16, 8, 3, 70, 33, 6, 14>>

y(a) == table[a + 1]

(* Segment i is lit when its line is low.                                  *)
Lit(line) == {i \in 0 .. 6 : (line \div 2^i) % 2 = 0}

Shape == <<0 .. 5, {1, 2}, {0, 1, 3, 4, 6}, {0, 1, 2, 3, 6}, {1, 2, 5, 6},
           {0, 2, 3, 5, 6}, {0, 2, 3, 4, 5, 6}, {0, 1, 2}, 0 .. 6,
           {0, 1, 2, 3, 5, 6}, {0, 1, 2, 4, 5, 6}, {2, 3, 4, 5, 6},
           {0, 3, 4, 5}, {1, 2, 3, 4, 6}, {0, 3, 4, 5, 6}, {0, 4, 5, 6}>>

(* The digit d is what the segments of line show.                          *)
Shows(line, d) == Lit(line) = Shape[d + 1]
=============================================================================
