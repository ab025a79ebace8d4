------------------------------- MODULE Hello -------------------------------
(***************************************************************************)
(* lab3/lab3-sw/hello.c, the only user of the device: it moves the ball    *)
(* over the screen.  Its ioctl calls reach the registers through the       *)
(* driver, one write for each coordinate, or fail as a whole.              *)
(***************************************************************************)
EXTENDS BallRegisters, HelloLoop

VARIABLE pc             \* "open", "colour", "x", "y", "move" or "ended"

vars == <<registers, pc, ball, fails>>

Init ==
  /\ background = <<249, 228, 183>>
  /\ \E q \in Left : ball_x = q[1] /\ ball_y = q[2]
  /\ pc = "open" /\ Start

OpenDevice ==
  /\ pc = "open" /\ pc' \in {"colour", "ended"}
  /\ UNCHANGED <<registers, ball, fails>>

SetBackground ==
  /\ pc = "colour" /\ pc' = "x"
  /\ BusWrite(0, 64) \/ UNCHANGED registers
  /\ UNCHANGED <<ball, fails>>

(* set_ball_pos takes unsigned shorts.                                     *)
SetX ==
  /\ pc = "x" /\ pc' = "y" /\ BusWrite(1, x % 2^16)
  /\ UNCHANGED <<ball, fails>>

SetY ==
  /\ pc = "y" /\ pc' = "move" /\ BusWrite(2, y % 2^16) /\ fails' = 0
  /\ UNCHANGED ball

SetFails ==
  /\ pc = "x" /\ pc' = "move" /\ fails < MaxFails /\ fails' = fails + 1
  /\ UNCHANGED <<registers, ball>>

Move ==
  /\ pc = "move" /\ Advance
  /\ pc' = IF i + 1 < 10000 THEN "x" ELSE "ended"
  /\ UNCHANGED registers

Ended == pc = "ended" /\ UNCHANGED vars

Next == OpenDevice \/ SetBackground \/ SetX \/ SetY \/ SetFails \/ Move \/ Ended

Spec == Init /\ [][Next]_vars

-----------------------------------------------------------------------------
(* The position that is sent is on the screen, or the first one past it:   *)
(* it is never negative, and the unsigned shorts keep its value.           *)
HelloTypeOK ==
  /\ RegistersTypeOK
  /\ x \in 0 .. 640 /\ y \in 0 .. 480 /\ dx \in {-2, 2} /\ dy \in {-2, 2}
  /\ fails \in 0 .. MaxFails

(* How far a coordinate may jump when the program sends c: two pixels for  *)
(* this turn of the loop and two for each call that has failed since one   *)
(* worked.  When that one was size itself, which is ignored, those that    *)
(* had failed before it count as well.                                     *)
Lag(c, size) ==
  IF c + 2 * (fails + 1) = size THEN 2 * (MaxFails + 1) ELSE 2 * (fails + 1)

StaysClose ==
  i > fails =>
    /\ ball_x' - ball_x \in -Lag(x, 640) .. Lag(x, 640)
    /\ ball_y' - ball_y \in -Lag(y, 480) .. Lag(y, 480)

(* The ball on the screen moves smoothly, no further than Lag says: it     *)
(* rests at the right and lower edges, where 640 and 480 are ignored, and  *)
(* never jumps there.  Only the first call may take it from anywhere.      *)
MovesSmoothly == [][StaysClose]_vars

(* After a call that has not failed the ball is where the program wants    *)
(* it, but for the edges.                                                  *)
Follows ==
  pc = "move" /\ fails = 0 =>
    /\ x < 640 => ball_x = x
    /\ y < 480 => ball_y = y

(* A coordinate that starts at n and is thrown back at 0 and at size, each *)
(* time without loss: where k steps of two pixels have brought it.         *)
Reflected(n, size, k) ==
  LET t == (n + 2 * k) % (2 * size) IN IF t <= size THEN t ELSE 2 * size - t

(* The ball crosses the screen from edge to edge and back as long as the   *)
(* loop runs: it is thrown back at each edge once, never turned again when *)
(* it leaves, and never stuck, in any combination of the two directions.   *)
Bounces == x = Reflected(320, 640, i) /\ y = Reflected(240, 480, i)
=============================================================================
