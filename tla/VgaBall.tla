------------------------------ MODULE VgaBall ------------------------------
(***************************************************************************)
(* vga_ball of lab3/lab3-hw/vga_ball.sv: the counters, the registers and   *)
(* the picture.  On every edge the counters move, and the bus may write.   *)
(* The reset line may rise and fall at any time between two edges: the     *)
(* counters follow its rise at once, the registers the next edge.          *)
(***************************************************************************)
EXTENDS VgaCounters, BallRegisters

CONSTANT Writes         \* the <<address, writedata>> that software sends

ASSUME WritesAssumption == Writes \subseteq (0 .. 7) \X Nat

VARIABLE reset

vars == <<counters, registers, reset>>

Init == Cleared /\ RegistersReset /\ reset = FALSE

Edge ==
  /\ ~reset /\ Count
  /\ UNCHANGED registers \/ \E w \in Writes : BusWrite(w[1], w[2])
  /\ UNCHANGED reset

EdgeInReset == reset /\ Clear /\ ToReset /\ UNCHANGED reset

ResetRises == ~reset /\ reset' = TRUE /\ Clear /\ UNCHANGED registers

ResetFalls == reset /\ reset' = FALSE /\ UNCHANGED <<counters, registers>>

Next == Edge \/ EdgeInReset \/ ResetRises \/ ResetFalls

Spec == Init /\ [][Next]_vars

-----------------------------------------------------------------------------
BALL_RADIUS == 16

pixel_x == Bits(hcount, 10, 1)
pixel_y == vcount

(* The value of the low w bits of n as a signed number.                    *)
Signed(n, w) == ((n + 2^(w - 1)) % 2^w) - 2^(w - 1)

Diff(pixel, ball) == Signed(pixel - Signed(ball, 11), 11)

x_diff == Diff(pixel_x, ball_x)
y_diff == Diff(pixel_y, ball_y)

(* A bug to be caught: the square of a distance kept in 16 bits.           *)
dist2Narrow == (x_diff * x_diff + y_diff * y_diff) % 2^16

dist2 == (x_diff * x_diff + y_diff * y_diff) % 2^22

in_ball == dist2 <= BALL_RADIUS * BALL_RADIUS

Black == <<0, 0, 0>>
Red == <<255, 0, 0>>

(* VGA_R, VGA_G, VGA_B                                                     *)
Colour == IF ~VGA_BLANK_n THEN Black ELSE IF in_ball THEN Red ELSE background

-----------------------------------------------------------------------------
VgaTypeOK == CountersTypeOK /\ RegistersTypeOK /\ reset \in BOOLEAN

(* What the screen shows at a place of the visible area is the disk of     *)
(* radius 16 around the ball over the background, by the distance between  *)
(* integers: the differences and the sum of their squares keep their value *)
(* in 11 and 22 bits, for a ball at any edge and a pixel at any other.     *)
DrawsDisk ==
  LET x == hcount \div 2 - ball_x
      y == vcount - ball_y
  IN hcount < HACTIVE /\ vcount < VACTIVE =>
       Colour = IF x * x + y * y <= 256 THEN Red ELSE background

Clock == vcount * HTOTAL + hcount

(* The scan takes the clocks of a field in order and begins again after    *)
(* the last: no write to a register delays it, only a reset cuts a field   *)
(* short, and after a reset of any length it begins at the first clock.    *)
ScansInOrder ==
  [][IF reset \/ reset' THEN Clock' = 0
     ELSE Clock' = (Clock + 1) % (HTOTAL * VTOTAL)]_vars
=============================================================================
