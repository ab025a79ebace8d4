--------------------------- MODULE VgaBallProofs ---------------------------
(***************************************************************************)
(* Proofs about VgaBall for every set of words that software writes.  All  *)
(* properties follow from the ranges of the counters and the registers,    *)
(* which are inductive by themselves.                                      *)
(***************************************************************************)
EXTENDS VgaBall, TLAPS

(* BusWrite (vga_ball.sv, the case over address) leaves the registers in   *)
(* their ranges, whatever is written to whichever address.                 *)
LEMMA BusWriteType ==
  ASSUME RegistersTypeOK, NEW address \in Nat, NEW writedata \in Nat,
         BusWrite(address, writedata)
  PROVE  RegistersTypeOK'
<1>1. writedata % 2^16 \in Nat
  OBVIOUS
<1>2. ball_x' = IF address = 1 /\ writedata % 2^16 <= 639
                THEN writedata % 2^16 ELSE ball_x
  BY Zenon DEF BusWrite, InRange
<1>3. ball_y' = IF address = 2 /\ writedata % 2^16 <= 479
                THEN writedata % 2^16 ELSE ball_y
  BY Zenon DEF BusWrite, InRange
<1>4. /\ (writedata \div 2^16) % 256 \in 0 .. 255
      /\ (writedata \div 256) % 256 \in 0 .. 255
      /\ writedata % 256 \in 0 .. 255
  OBVIOUS
<1>5. background' \in (0 .. 255) \X (0 .. 255) \X (0 .. 255)
  BY <1>4 DEF BusWrite, RegistersTypeOK
<1>6. ball_x' \in 0 .. 639
  BY <1>1, <1>2 DEF RegistersTypeOK
<1>7. ball_y' \in 0 .. 479
  BY <1>1, <1>3 DEF RegistersTypeOK
<1> QED
  BY <1>5, <1>6, <1>7 DEF RegistersTypeOK

(* The reset values of vga_ball.sv are in the ranges.                      *)
LEMMA ResetType == /\ RegistersReset => RegistersTypeOK
                   /\ ToReset => RegistersTypeOK'
BY DEF RegistersReset, ToReset, RegistersTypeOK, ResetColour

-----------------------------------------------------------------------------
(* The lengths of a line and of a field.                                   *)
LEMMA Totals == HTOTAL = 1600 /\ VTOTAL = 525
BY DEF HTOTAL, VTOTAL, HACTIVE, HFRONT_PORCH, HSYNC, HBACK_PORCH,
       VACTIVE, VFRONT_PORCH, VSYNC, VBACK_PORCH

(* One clock of vga_counters: on to the next place, or back to the start   *)
(* of a line and of the field.                                             *)
LEMMA CountStep ==
  ASSUME CountersTypeOK, Count
  PROVE  \/ hcount < 1599 /\ hcount' = hcount + 1 /\ vcount' = vcount
         \/ hcount = 1599 /\ hcount' = 0 /\ vcount < 524 /\ vcount' = vcount + 1
         \/ hcount = 1599 /\ hcount' = 0 /\ vcount = 524 /\ vcount' = 0
<1>1. hcount \in 0 .. 1599 /\ vcount \in 0 .. 524
  BY Totals DEF CountersTypeOK
<1>2. CASE hcount = 1599
  BY <1>1, <1>2, Totals DEF Count, endOfLine, endOfField
<1>3. CASE hcount # 1599
  BY <1>1, <1>3, Totals DEF Count, endOfLine
<1> QED
  BY <1>2, <1>3

(* Every edge keeps the counters and the registers in range.               *)
LEMMA TypeStep ==
  ASSUME VgaTypeOK, [Next]_vars
  PROVE  VgaTypeOK'
<1>1. CASE Edge
  <2>1. CountersTypeOK'
    <3>1. hcount \in 0 .. 1599 /\ vcount \in 0 .. 524
      BY Totals DEF VgaTypeOK, CountersTypeOK
    <3>2. CountersTypeOK /\ Count
      BY <1>1 DEF Edge, VgaTypeOK
    <3>3. hcount' \in 0 .. 1599 /\ vcount' \in 0 .. 524
      <4>1. CASE hcount < 1599 /\ hcount' = hcount + 1 /\ vcount' = vcount
        BY <3>1, <4>1
      <4>2. CASE /\ hcount = 1599 /\ hcount' = 0 /\ vcount < 524
                 /\ vcount' = vcount + 1
        BY <3>1, <4>2
      <4>3. CASE hcount = 1599 /\ hcount' = 0 /\ vcount = 524 /\ vcount' = 0
        BY <4>3
      <4> QED
        BY <3>2, <4>1, <4>2, <4>3, CountStep
    <3> QED
      BY <3>3, Totals DEF CountersTypeOK
  <2>0. reset' \in BOOLEAN
    BY <1>1 DEF Edge, VgaTypeOK
  <2>2. CASE UNCHANGED registers
    BY <2>0, <2>1, <2>2 DEF VgaTypeOK, RegistersTypeOK, registers
  <2>3. ASSUME NEW w \in Writes, BusWrite(w[1], w[2])
        PROVE  VgaTypeOK'
    <3>1. w[1] \in Nat /\ w[2] \in Nat
      BY WritesAssumption
    <3> QED
      BY <2>0, <2>1, <2>3, <3>1, BusWriteType DEF VgaTypeOK
  <2> QED
    BY <1>1, <2>2, <2>3 DEF Edge
<1>2. Clear => CountersTypeOK'
  BY Totals DEF Clear, CountersTypeOK
<1>3. CASE EdgeInReset
  BY <1>2, <1>3, ResetType DEF EdgeInReset, VgaTypeOK
<1>4. CASE ResetRises
  BY <1>2, <1>4 DEF ResetRises, VgaTypeOK, RegistersTypeOK, registers
<1>5. CASE ResetFalls
  BY <1>5 DEF ResetFalls, VgaTypeOK, CountersTypeOK, RegistersTypeOK, counters, registers
<1>6. CASE UNCHANGED vars
  BY <1>6 DEF VgaTypeOK, CountersTypeOK, RegistersTypeOK, vars, counters, registers
<1> QED
  BY <1>1, <1>3, <1>4, <1>5, <1>6 DEF Next

(* The state after a reset is one of the types.                            *)
LEMMA TypeInit == Init => VgaTypeOK
<1>1. Cleared => CountersTypeOK
  BY Totals DEF Cleared, CountersTypeOK
<1> QED
  BY <1>1, ResetType DEF Init, VgaTypeOK

(* The counters stay inside the line and the field, and the centre of the  *)
(* ball on the screen, whatever words reach the registers of vga_ball.sv.  *)
THEOREM VgaTypeCorrect == Spec => []VgaTypeOK
  BY TypeInit, TypeStep, PTL DEF Spec

-----------------------------------------------------------------------------
(* The bits of the counters decide visibility exactly.                     *)
LEMMA BlankDecoded == VgaTypeOK => VisibleArea
<1> SUFFICES ASSUME VgaTypeOK PROVE VisibleArea
  OBVIOUS
<1>1. hcount \in 0 .. 1599 /\ vcount \in 0 .. 524
  BY Totals DEF VgaTypeOK, CountersTypeOK
<1>2. (Bits(hcount, 10, 10) = 1 /\ Bits(hcount, 9, 8) # 0) <=> hcount >= 1280
  BY <1>1 DEF Bits
<1>3. (Bits(vcount, 9, 9) = 1 \/ Bits(vcount, 8, 5) = 15) <=> vcount >= 480
  BY <1>1 DEF Bits
<1> QED
  BY <1>1, <1>2, <1>3 DEF VisibleArea, VGA_BLANK_n, HACTIVE, VACTIVE

(* The tests of single bits for VGA_BLANK_n (vga_ball.sv:144) pick out the *)
(* visible area.                                                           *)
THEOREM VisibleAreaCorrect == Spec => []VisibleArea
BY VgaTypeCorrect, BlankDecoded, PTL

(* The bits of the counters place both sync pulses in the dark.            *)
LEMMA SyncDecoded == VgaTypeOK => SyncInTheDark
<1> SUFFICES ASSUME VgaTypeOK PROVE SyncInTheDark
  OBVIOUS
<1>1. hcount \in 0 .. 1599 /\ vcount \in 0 .. 524
  BY Totals DEF VgaTypeOK, CountersTypeOK
<1>2. ~VGA_HS <=> hcount \in 1280 .. 1503
  BY <1>1 DEF VGA_HS, Bits
<1>3. ~VGA_VS <=> vcount \in 490 .. 491
  BY <1>1 DEF VGA_VS, Bits, VACTIVE, VFRONT_PORCH
<1> QED
  BY <1>1, <1>2, <1>3, Totals
     DEF SyncInTheDark, VACTIVE, VFRONT_PORCH, VSYNC, HACTIVE, HFRONT_PORCH,
         HSYNC, HBACK_PORCH

(* Both sync pulses (vga_ball.sv:135, 137) come in the dark and end where  *)
(* the back porches begin.                                                 *)
THEOREM SyncCorrect == Spec => []SyncInTheDark
BY VgaTypeCorrect, SyncDecoded, PTL

-----------------------------------------------------------------------------
(* Eleven signed bits hold the difference of a pixel and a coordinate.     *)
LEMMA DiffExact ==
  ASSUME NEW a \in Int, NEW b \in Int, 0 <= a, a <= 1023, 0 <= b, b <= 1023
  PROVE  Diff(a, b) = a - b
<1>1. Signed(b, 11) = b
  BY DEF Signed
<1>2. Signed(a - b, 11) = a - b
  BY DEF Signed
<1> QED
  BY <1>1, <1>2 DEF Diff

(* The square of a distance on the screen fits 21 bits.                    *)
LEMMA SquareBound ==
  ASSUME NEW a \in Int, -1023 <= a, a <= 1023
  PROVE  a * a \in Nat /\ a * a <= 2^20
<1>1. CASE a >= 0
  <2>1. a * a >= 0 /\ a * a <= 2^20
    BY <1>1, SMT
  <2> QED
    BY <2>1
<1>2. CASE a < 0
  <2>1. a * a = (-a) * (-a) /\ -a \in Int /\ 0 <= -a /\ -a <= 1023
    BY <1>2
  <2>2. (-a) * (-a) >= 0 /\ (-a) * (-a) <= 2^20
    BY <2>1, SMT
  <2> QED
    BY <2>1, <2>2
<1> QED
  BY <1>1, <1>2

(* The sum of two of them is not cut off.                                  *)
LEMMA SumBound ==
  ASSUME NEW a \in Nat, NEW b \in Nat, a <= 2^20, b <= 2^20
  PROVE  (a + b) % 2^22 = a + b
BY SMT

(* Twenty-two bits hold the sum of the two squares.                        *)
LEMMA DistanceExact ==
  ASSUME VgaTypeOK
  PROVE  LET x == hcount \div 2 - ball_x
             y == vcount - ball_y
         IN dist2 = x * x + y * y
<1> DEFINE x == hcount \div 2 - ball_x
           y == vcount - ball_y
<1>1. /\ hcount \in 0 .. 1599 /\ vcount \in 0 .. 524
      /\ ball_x \in 0 .. 639 /\ ball_y \in 0 .. 479
  BY Totals DEF VgaTypeOK, CountersTypeOK, RegistersTypeOK
<1>2. pixel_x = hcount \div 2 /\ hcount \div 2 \in 0 .. 799
  <2> DEFINE half == hcount \div 2
  <2>0. hcount \in Int /\ 0 <= hcount /\ hcount <= 1599
    BY <1>1
  <2>1. half \in Int /\ 0 <= half /\ half <= 799
    BY <2>0, SMT
  <2>2. pixel_x = half % 1024
    BY SMT DEF pixel_x, Bits
  <2> HIDE DEF half
  <2>3. half % 1024 = half /\ half \in 0 .. 799
    BY <2>1, SMT
  <2> QED
    BY <2>2, <2>3 DEF half
<1>3. Diff(pixel_x, ball_x) = pixel_x - ball_x
  <2>1. /\ pixel_x \in Int /\ 0 <= pixel_x /\ pixel_x <= 1023
        /\ ball_x \in Int /\ 0 <= ball_x /\ ball_x <= 1023
    BY <1>1, <1>2
  <2> QED
    BY <2>1, DiffExact
<1>4. Diff(vcount, ball_y) = vcount - ball_y
  <2>1. /\ vcount \in Int /\ 0 <= vcount /\ vcount <= 1023
        /\ ball_y \in Int /\ 0 <= ball_y /\ ball_y <= 1023
    BY <1>1
  <2> QED
    BY <2>1, DiffExact
<1>5. x_diff = x /\ y_diff = y
  BY <1>2, <1>3, <1>4 DEF x_diff, y_diff, pixel_y
<1>6. /\ x \in Int /\ -1023 <= x /\ x <= 1023
      /\ y \in Int /\ -1023 <= y /\ y <= 1023
  BY <1>1, <1>2
<1> HIDE DEF x, y
<1>7. /\ x * x \in Nat /\ x * x <= 2^20
      /\ y * y \in Nat /\ y * y <= 2^20
  BY <1>6, SquareBound
<1>8. (x * x + y * y) % 2^22 = x * x + y * y
  BY <1>7, SumBound
<1>9. dist2 = x * x + y * y
  BY <1>5, <1>8 DEF dist2
<1> QED
  BY <1>9 DEF x, y

(* The comparison of the circuit is that of the disk.                      *)
LEMMA DiskDrawn == VgaTypeOK => DrawsDisk
<1> SUFFICES ASSUME VgaTypeOK, hcount < HACTIVE, vcount < VACTIVE
             PROVE  LET x == hcount \div 2 - ball_x
                        y == vcount - ball_y
                    IN Colour = IF x * x + y * y <= 256 THEN Red ELSE background
  BY DEF DrawsDisk
<1>1. VGA_BLANK_n
  BY BlankDecoded DEF VisibleArea
<1> QED
  BY <1>1, DistanceExact DEF Colour, in_ball, BALL_RADIUS

(* On the visible area vga_ball.sv shows the disk around the ball: neither *)
(* a sign nor a carry is lost, wherever the ball and the pixel are.        *)
THEOREM DrawsDiskCorrect == Spec => []DrawsDisk
BY VgaTypeCorrect, DiskDrawn, PTL

-----------------------------------------------------------------------------
(* The two counters count as one.                                          *)
LEMMA ClockStep ==
  ASSUME CountersTypeOK, Count
  PROVE  Clock' = (Clock + 1) % (HTOTAL * VTOTAL)
<1>1. hcount \in 0 .. 1599 /\ vcount \in 0 .. 524
  BY Totals DEF CountersTypeOK
<1>2. Clock = vcount * 1600 + hcount /\ Clock' = vcount' * 1600 + hcount'
  BY Totals DEF Clock, HTOTAL, HACTIVE, HFRONT_PORCH, HSYNC, HBACK_PORCH
<1>3. HTOTAL * VTOTAL = 840000
  BY Totals
<1> QED
  BY <1>1, <1>2, <1>3, CountStep

(* While the reset line is up the counters are at the first clock.         *)
HeldInReset == VgaTypeOK /\ (reset => Cleared)

(* The scan of vga_counters takes the clocks of a field in order, whatever *)
(* is written meanwhile, and begins at the first one after a reset, which  *)
(* the counters see at once and the registers on the next edge             *)
(* (vga_ball.sv:55, 116, 125).                                             *)
THEOREM ScansCorrect == Spec => ScansInOrder
<1> DEFINE InOrder == IF reset \/ reset' THEN Clock' = 0
                      ELSE Clock' = (Clock + 1) % (HTOTAL * VTOTAL)
<1>1. (Clear \/ Cleared') => Clock' = 0
  BY Totals DEF Clear, Cleared, Clock
<1>2. Init => HeldInReset
  BY TypeInit DEF HeldInReset, Init
<1>3. HeldInReset /\ [Next]_vars => HeldInReset'
  <2> SUFFICES ASSUME HeldInReset, [Next]_vars PROVE (reset => Cleared)'
    BY TypeStep DEF HeldInReset
  <2>1. CASE Edge \/ ResetFalls
    BY <2>1 DEF Edge, ResetFalls
  <2>2. CASE EdgeInReset \/ ResetRises
    BY <2>2 DEF EdgeInReset, ResetRises, Clear, Cleared
  <2>3. CASE UNCHANGED vars
    BY <2>3 DEF vars, counters, HeldInReset, Cleared
  <2> QED
    BY <2>1, <2>2, <2>3 DEF Next
<1>4. HeldInReset /\ [Next]_vars => [InOrder]_vars
  <2> SUFFICES ASSUME HeldInReset, Next PROVE InOrder
    OBVIOUS
  <2>1. CASE Edge
    <3>1. ~reset /\ ~reset'
      BY <2>1 DEF Edge
    <3>2. Clock' = (Clock + 1) % (HTOTAL * VTOTAL)
      BY <2>1, ClockStep DEF Edge, HeldInReset, VgaTypeOK
    <3> QED
      BY <3>1, <3>2
  <2>2. CASE EdgeInReset \/ ResetRises
    <3>1. Clear /\ (reset \/ reset')
      BY <2>2 DEF EdgeInReset, ResetRises
    <3> QED
      BY <1>1, <3>1
  <2>3. CASE ResetFalls
    <3>1. reset /\ Cleared'
      BY <2>3 DEF ResetFalls, HeldInReset, Cleared, counters
    <3> QED
      BY <1>1, <3>1
  <2> QED
    BY <2>1, <2>2, <2>3 DEF Next
<1> HIDE DEF InOrder
<1> QED
  BY <1>2, <1>3, <1>4, PTL DEF Spec, ScansInOrder, InOrder
=============================================================================
