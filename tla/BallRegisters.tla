--------------------------- MODULE BallRegisters ---------------------------
(***************************************************************************)
(* The registers of lab3/lab3-hw/vga_ball.sv, as the processor sees them:  *)
(* write-only words 0, 1 and 2 of the component.                           *)
(***************************************************************************)
EXTENDS Integers

VARIABLES
  background,           \* <<background_r, background_g, background_b>>
  ball_x, ball_y

registers == <<background, ball_x, ball_y>>

ResetColour == <<128, 0, 128>>

RegistersReset == background = ResetColour /\ ball_x = 320 /\ ball_y = 240

ToReset == background' = ResetColour /\ ball_x' = 320 /\ ball_y' = 240

(* A bug to be caught: 640 and 480 are taken.                              *)
InRangeWide(n, last) == n <= last + 1

InRange(n, last) == n <= last

(* chipselect && write, with this address and writedata.                   *)
BusWrite(address, writedata) ==
  LET low == writedata % 2^16 IN
  /\ background' = IF address # 0 THEN background
                   ELSE <<(writedata \div 2^16) % 256,
                          (writedata \div 256) % 256, writedata % 256>>
  /\ ball_x' = IF address = 1 /\ InRange(low, 639) THEN low ELSE ball_x
  /\ ball_y' = IF address = 2 /\ InRange(low, 479) THEN low ELSE ball_y

(* "X coordinate (0-639)", "Y coordinate (0-479)" (vga_ball.sv:13, 16):    *)
(* the ball's centre is on the screen, whatever was written.               *)
RegistersTypeOK ==
  /\ background \in (0 .. 255) \X (0 .. 255) \X (0 .. 255)
  /\ ball_x \in 0 .. 639 /\ ball_y \in 0 .. 479
=============================================================================
