----------------------------- MODULE HelloLoop -----------------------------
(***************************************************************************)
(* The variables of main in lab3/lab3-sw/hello.c and what a turn of its    *)
(* loop does to them.  Hello adds the calls as the registers see them,     *)
(* HelloOnDriver as the driver does.                                       *)
(***************************************************************************)
EXTENDS Integers

CONSTANTS
  Left,                 \* where the ball may be when the program starts
  MaxFails              \* a bound: this many calls in a row may fail

ASSUME HelloAssumption ==
  Left \subseteq (0 .. 639) \X (0 .. 479) /\ MaxFails \in 0 .. 99

VARIABLES
  x, y, dx, dy, i,      \* the variables of main
  fails                 \* the calls that have failed in a row

ball == <<x, y, dx, dy, i>>

Start == x = 320 /\ y = 240 /\ dx = 2 /\ dy = 2 /\ i = 0 /\ fails = 0

(* A bug to be caught: the second comparison is the wrong way round.       *)
TurnInside(d, n, size) == IF n <= 0 \/ n <= size THEN -d ELSE d

Turn(d, n, size) == IF n <= 0 \/ n >= size THEN -d ELSE d

(* A bug to be caught: x =+ dx, an assignment in place of a sum.           *)
AdvanceAssigns ==
  /\ x' = dx /\ y' = y + dy
  /\ dx' = Turn(dx, dx, 640) /\ dy' = Turn(dy, y + dy, 480)
  /\ i' = i + 1 /\ UNCHANGED fails

Advance ==
  /\ x' = x + dx /\ y' = y + dy
  /\ dx' = Turn(dx, x + dx, 640) /\ dy' = Turn(dy, y + dy, 480)
  /\ i' = i + 1 /\ UNCHANGED fails
=============================================================================
