---------------------------- MODULE VgaCounters ----------------------------
(***************************************************************************)
(* vga_counters of lab3/lab3-hw/vga_ball.sv: the two counters that scan    *)
(* the screen, and the signals decoded from their bits.  One step is one   *)
(* rising edge of the 50 MHz clock; a pixel lasts two.                     *)
(***************************************************************************)
EXTENDS Integers

VARIABLES hcount, vcount        \* 11 and 10 bits

counters == <<hcount, vcount>>

HACTIVE == 1280
HFRONT_PORCH == 32
HSYNC == 192
HBACK_PORCH == 96
HTOTAL == HACTIVE + HFRONT_PORCH + HSYNC + HBACK_PORCH

VACTIVE == 480
VFRONT_PORCH == 10
VSYNC == 2
VBACK_PORCH == 33
VTOTAL == VACTIVE + VFRONT_PORCH + VSYNC + VBACK_PORCH

Cleared == hcount = 0 /\ vcount = 0

Clear == hcount' = 0 /\ vcount' = 0

(* A bug to be caught: a line is one clock short.                          *)
endOfLineEarly == hcount = HTOTAL - 2

endOfLine == hcount = HTOTAL - 1

endOfField == vcount = VTOTAL - 1

Count ==
  /\ hcount' = IF endOfLine THEN 0 ELSE (hcount + 1) % 2048
  /\ vcount' = IF ~endOfLine THEN vcount
               ELSE IF endOfField THEN 0 ELSE (vcount + 1) % 1024

-----------------------------------------------------------------------------
(* n[hi:lo]                                                                *)
Bits(n, hi, lo) == (n \div 2^lo) % 2^(hi - lo + 1)

(* A bug to be caught: the wrong group of 256 clocks.                      *)
VGA_HS_Early == ~(Bits(hcount, 10, 8) = 4 /\ Bits(hcount, 7, 5) # 7)

VGA_HS == ~(Bits(hcount, 10, 8) = 5 /\ Bits(hcount, 7, 5) # 7)

VGA_VS == Bits(vcount, 9, 1) # (VACTIVE + VFRONT_PORCH) \div 2

(* A bug to be caught: the line ends at 1024.                              *)
VGA_BLANK_n_Short ==
  Bits(hcount, 10, 10) = 0 /\ ~(Bits(vcount, 9, 9) = 1 \/ Bits(vcount, 8, 5) = 15)

VGA_BLANK_n ==
  /\ ~(Bits(hcount, 10, 10) = 1 /\ Bits(hcount, 9, 8) # 0)
  /\ ~(Bits(vcount, 9, 9) = 1 \/ Bits(vcount, 8, 5) = 15)

-----------------------------------------------------------------------------
CountersTypeOK == hcount \in 0 .. HTOTAL - 1 /\ vcount \in 0 .. VTOTAL - 1

(* The comment at vga_ball.sv:141, "Horizontal active: 0 to 1279, vertical *)
(* active: 0 to 479": the tests of single bits for VGA_BLANK_n pick out    *)
(* exactly the visible part of the line and of the field.                  *)
VisibleArea == VGA_BLANK_n <=> hcount < HACTIVE /\ vcount < VACTIVE

(* The monitor's two pulses come in the dark and end where the back        *)
(* porches begin.  The vertical one lasts VSYNC lines; the horizontal one  *)
(* covers at least its HSYNC clocks.                                       *)
SyncInTheDark ==
  /\ ~VGA_VS <=> vcount - VACTIVE - VFRONT_PORCH \in 0 .. VSYNC - 1
  /\ ~VGA_HS => hcount \in HACTIVE .. HTOTAL - HBACK_PORCH - 1
  /\ hcount - HACTIVE - HFRONT_PORCH \in 0 .. HSYNC - 1 => ~VGA_HS

(* "Horizontal sync: from 0x520 to 0x5DF" (vga_ball.sv:133), after a front *)
(* porch of 32 clocks.  It begins with the first dark clock, at 0x500: the *)
(* test leaves out hcount[7:5] = 111 and not 000.                          *)
HSyncAsCommented == ~VGA_HS <=> hcount \in 1312 .. 1503
=============================================================================
