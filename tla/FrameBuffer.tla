---------------------------- MODULE FrameBuffer ----------------------------
(***************************************************************************)
(* The addresses of lab2/fbputchar.c: which bytes of the mapped memory a   *)
(* character is drawn on, and which fbclear blackens.  Colours and the     *)
(* font, whose dots become squares of two by two pixels, are left out.     *)
(***************************************************************************)
EXTENDS Integers

CONSTANTS
  line_length, smem_len,        \* fb_finfo
  xres, yres, xoffset, yoffset, \* fb_vinfo
  Rows, Cols                    \* 24 and 64 in the source

(* What the kernel says of a screen: a line holds the pixels that are seen *)
(* of it, and the memory holds the lines.  Nothing is said of the          *)
(* resolution, which fbopen does not look at.                              *)
ASSUME ScreenAssumption ==
  /\ {line_length, smem_len, xres, yres, xoffset, yoffset, Rows, Cols} \subseteq Nat
  /\ 4 * (xoffset + xres) <= line_length
  /\ (yoffset + yres) * line_length <= smem_len

FONT_WIDTH == 8
FONT_HEIGHT == 16

(* The first byte of a pixel, as fbclear computes it.                      *)
Pixel(x, y) == (y + yoffset) * line_length + xoffset * 4 + x * 4

Cleared == {Pixel(x, y) : x \in 0 .. xres - 1, y \in 0 .. yres - 1}

(* A bug to be caught: the columns are those of the font.                  *)
Left1(row, col) ==
  (row * FONT_HEIGHT * 2 + yoffset) * line_length + (col * FONT_WIDTH + xoffset) * 4

(* fbputchar: the top left byte, and the pixels drawn from there.          *)
Left(row, col) ==
  (row * FONT_HEIGHT * 2 + yoffset) * line_length + (col * FONT_WIDTH * 2 + xoffset) * 4

Drawn(row, col) ==
  {Left(row, col) + y * line_length + 4 * x :
     y \in 0 .. FONT_HEIGHT * 2 - 1, x \in 0 .. FONT_WIDTH * 2 - 1}

Places == {<<r, c>> : r \in 0 .. Rows - 1, c \in 0 .. Cols - 1}

(* The places that this resolution has room for.                           *)
Visible == {a \in Places : 32 * (a[1] + 1) <= yres /\ 16 * (a[2] + 1) <= xres}

(* The places inside what is cleared and mapped, and which places have no  *)
(* byte in common.                                                         *)
Inside ==
  {a \in Places : \A q \in Drawn(a[1], a[2]) : q \in Cleared /\ q \in 0 .. smem_len - 4}

Apart ==
  [a \in Places |-> [b \in Places |-> Drawn(a[1], a[2]) \cap Drawn(b[1], b[2]) = {}]]
=============================================================================
