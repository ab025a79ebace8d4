---------------------------- MODULE HelloProofs ----------------------------
(***************************************************************************)
(* Proofs about Hello, for every place the ball may have been left at and  *)
(* every bound on the calls that fail in a row.  Bounces is not inductive: *)
(* the direction must be known as well, by the phase of the coordinate in  *)
(* its way from one edge to the other and back.                            *)
(***************************************************************************)
EXTENDS Hello, TLAPS

(* BusWrite (vga_ball.sv, the case over address) leaves the registers in   *)
(* their ranges, whatever is written to whichever address.                 *)
LEMMA BusWriteType ==
  ASSUME RegistersTypeOK, NEW address \in Nat, NEW writedata \in Nat,
         BusWrite(address, writedata)
  PROVE  RegistersTypeOK'
<1>1. writedata % 2^16 \in Nat
  OBVIOUS
<1>2. ball_x' = IF address = 1 /\ writedata % 2^16 <= 639
                THEN writedata % 2^16 ELSE ball_x
  BY Zenon DEF BusWrite, InRange
<1>3. ball_y' = IF address = 2 /\ writedata % 2^16 <= 479
                THEN writedata % 2^16 ELSE ball_y
  BY Zenon DEF BusWrite, InRange
<1>4. /\ (writedata \div 2^16) % 256 \in 0 .. 255
      /\ (writedata \div 256) % 256 \in 0 .. 255
      /\ writedata % 256 \in 0 .. 255
  OBVIOUS
<1>5. background' \in (0 .. 255) \X (0 .. 255) \X (0 .. 255)
  BY <1>4 DEF BusWrite, RegistersTypeOK
<1>6. ball_x' \in 0 .. 639
  BY <1>1, <1>2 DEF RegistersTypeOK
<1>7. ball_y' \in 0 .. 479
  BY <1>1, <1>3 DEF RegistersTypeOK
<1> QED
  BY <1>5, <1>6, <1>7 DEF RegistersTypeOK

(* A coordinate on the screen is stored, any other that the driver can     *)
(* send, in 16 bits, is ignored.                                           *)
LEMMA BusWritePosition ==
  ASSUME NEW n \in Nat, n < 2^16
  PROVE  /\ BusWrite(1, n) => ball_x' = IF n <= 639 THEN n ELSE ball_x
         /\ BusWrite(2, n) => ball_y' = IF n <= 479 THEN n ELSE ball_y
<1>1. n % 2^16 = n
  BY SMT
<1> QED
  BY <1>1 DEF BusWrite, InRange

-----------------------------------------------------------------------------
Phase(n, size, k) == (n + 2 * k) % (2 * size)

Heading(n, size, k) == IF Phase(n, size, k) < size THEN 2 ELSE -2

(* One turn of the loop for one coordinate of hello.c: it stays on its way *)
(* and turns exactly at the edges.                                         *)
LEMMA TurnX ==
  ASSUME NEW k \in Nat
  PROVE  LET c == Reflected(320, 640, k)
             d == Heading(320, 640, k)
         IN /\ c \in Int /\ 0 <= c /\ c <= 640
            /\ c + d = Reflected(320, 640, k + 1)
            /\ Turn(d, c + d, 640) = Heading(320, 640, k + 1)
<1> DEFINE t == (320 + 2 * k) % 1280
           u == (320 + 2 * (k + 1)) % 1280
<1>1. t \in Int /\ 0 <= t /\ t < 1280 /\ t % 2 = 0
  BY SMT
<1>2. u = IF t = 1278 THEN 0 ELSE t + 2
  BY SMT
<1>3. /\ Reflected(320, 640, k) = IF t <= 640 THEN t ELSE 1280 - t
      /\ Reflected(320, 640, k + 1) = IF u <= 640 THEN u ELSE 1280 - u
      /\ Heading(320, 640, k) = IF t < 640 THEN 2 ELSE -2
      /\ Heading(320, 640, k + 1) = IF u < 640 THEN 2 ELSE -2
  BY SMT DEF Reflected, Heading, Phase
<1> HIDE DEF t, u
<1> QED
  BY <1>1, <1>2, <1>3, SMT DEF Turn

(* A step down the screen follows the reflected line, and so does a turn.  *)
LEMMA TurnY ==
  ASSUME NEW k \in Nat
  PROVE  LET c == Reflected(240, 480, k)
             d == Heading(240, 480, k)
         IN /\ c \in Int /\ 0 <= c /\ c <= 480
            /\ c + d = Reflected(240, 480, k + 1)
            /\ Turn(d, c + d, 480) = Heading(240, 480, k + 1)
<1> DEFINE t == (240 + 2 * k) % 960
           u == (240 + 2 * (k + 1)) % 960
<1>1. t \in Int /\ 0 <= t /\ t < 960 /\ t % 2 = 0
  BY SMT
<1>2. u = IF t = 958 THEN 0 ELSE t + 2
  BY SMT
<1>3. /\ Reflected(240, 480, k) = IF t <= 480 THEN t ELSE 960 - t
      /\ Reflected(240, 480, k + 1) = IF u <= 480 THEN u ELSE 960 - u
      /\ Heading(240, 480, k) = IF t < 480 THEN 2 ELSE -2
      /\ Heading(240, 480, k + 1) = IF u < 480 THEN 2 ELSE -2
  BY SMT DEF Reflected, Heading, Phase
<1> HIDE DEF t, u
<1> QED
  BY <1>1, <1>2, <1>3, SMT DEF Turn

-----------------------------------------------------------------------------
(* The ball of the program and its directions.                             *)
Course ==
  /\ i \in Nat
  /\ x = Reflected(320, 640, i) /\ dx = Heading(320, 640, i)
  /\ y = Reflected(240, 480, i) /\ dy = Heading(240, 480, i)

(* The program starts on its course.                                       *)
LEMMA CourseInit == Init => Course
<1>1. /\ Reflected(320, 640, 0) = 320 /\ Heading(320, 640, 0) = 2
      /\ Reflected(240, 480, 0) = 240 /\ Heading(240, 480, 0) = 2
  BY SMT DEF Reflected, Heading, Phase
<1> QED
  BY <1>1 DEF Init, Start, Course

(* Every step of the program stays on the course.                          *)
LEMMA CourseStep ==
  ASSUME Course, [Next]_vars
  PROVE  Course'
<1>1. CASE UNCHANGED ball
  BY <1>1 DEF Course, ball, Reflected, Heading, Phase
<1>2. CASE Move
  <2>1. i \in Nat /\ i' = i + 1
    BY <1>2 DEF Move, Advance, Course
  <2>2. /\ x' = Reflected(320, 640, i + 1) /\ dx' = Heading(320, 640, i + 1)
    BY <1>2, <2>1, TurnX DEF Move, Advance, Course
  <2>3. /\ y' = Reflected(240, 480, i + 1) /\ dy' = Heading(240, 480, i + 1)
    BY <1>2, <2>1, TurnY DEF Move, Advance, Course
  <2> QED
    BY <2>1, <2>2, <2>3 DEF Course, Reflected, Heading, Phase
<1> QED
  BY <1>1, <1>2 DEF Next, OpenDevice, SetBackground, SetX, SetY, SetFails, Ended, vars

(* hello.c throws the ball back at each edge, once and without loss.       *)
THEOREM BouncesCorrect == Spec => []Bounces
<1>1. Course => Bounces
  BY DEF Course, Bounces
<1> QED
  BY <1>1, CourseInit, CourseStep, PTL DEF Spec

-----------------------------------------------------------------------------
Pcs == {"open", "colour", "x", "y", "move", "ended"}

(* The course stays on the screen, one place past an edge included.        *)
LEMMA CourseRange ==
  ASSUME Course
  PROVE  /\ x \in Int /\ 0 <= x /\ x <= 640 /\ dx \in {-2, 2}
         /\ y \in Int /\ 0 <= y /\ y <= 480 /\ dy \in {-2, 2}
         /\ x = 640 => dx = -2
         /\ y = 480 => dy = -2
<1>1. i \in Nat
  BY DEF Course
<1>2. x \in Int /\ 0 <= x /\ x <= 640 /\ y \in Int /\ 0 <= y /\ y <= 480
  BY <1>1, TurnX, TurnY DEF Course
<1>3. dx \in {-2, 2} /\ dy \in {-2, 2}
  BY DEF Course, Heading
<1>4. x = 640 => dx = -2
  <2>1. Reflected(320, 640, i) = 640 => Heading(320, 640, i) = -2
    BY <1>1, SMT DEF Reflected, Heading, Phase
  <2> QED
    BY <2>1 DEF Course
<1>5. y = 480 => dy = -2
  <2>1. Reflected(240, 480, i) = 480 => Heading(240, 480, i) = -2
    BY <1>1, SMT DEF Reflected, Heading, Phase
  <2> QED
    BY <2>1 DEF Course
<1> QED
  BY <1>2, <1>3, <1>4, <1>5

(* With the course of the ball, the registers and the counter of failures  *)
(* are inductive.                                                          *)
Typed == Course /\ RegistersTypeOK /\ fails \in 0 .. MaxFails /\ pc \in Pcs

(* The program and the registers start in range.                           *)
LEMMA TypedInit == Init => Typed
<1> SUFFICES ASSUME Init PROVE Typed
  OBVIOUS
<1>1. RegistersTypeOK
  BY HelloAssumption DEF Init, RegistersTypeOK
<1> QED
  BY <1>1, CourseInit, HelloAssumption DEF Init, Start, Typed, Pcs

(* What the two writes of set_ball_pos do.                                 *)
LEMMA Writes ==
  ASSUME Typed
  PROVE  /\ SetX => /\ ball_x' = IF x <= 639 THEN x ELSE ball_x
                    /\ ball_y' = ball_y
         /\ SetY => /\ ball_y' = IF y <= 479 THEN y ELSE ball_y
                    /\ ball_x' = ball_x
<1>1. /\ x \in Nat /\ x < 2^16 /\ x % 2^16 = x
      /\ y \in Nat /\ y < 2^16 /\ y % 2^16 = y
  <2>1. x \in Int /\ 0 <= x /\ x <= 640 /\ y \in Int /\ 0 <= y /\ y <= 480
    BY CourseRange DEF Typed
  <2> QED
    BY <2>1, SMT
<1>2. SetX => BusWrite(1, x)
  BY <1>1 DEF SetX
<1>3. SetY => BusWrite(2, y)
  BY <1>1 DEF SetY
<1>4. /\ BusWrite(1, x) => ball_x' = IF x <= 639 THEN x ELSE ball_x
      /\ BusWrite(2, y) => ball_y' = IF y <= 479 THEN y ELSE ball_y
  BY <1>1, BusWritePosition
<1>5. /\ BusWrite(1, x) => ball_y' = ball_y
      /\ BusWrite(2, y) => ball_x' = ball_x
  BY DEF BusWrite
<1> QED
  BY <1>2, <1>3, <1>4, <1>5

(* Every step keeps them in range.                                         *)
LEMMA TypedStep ==
  ASSUME Typed, [Next]_vars
  PROVE  Typed'
<1>1. Course'
  BY CourseStep DEF Typed
<1>2. /\ x \in Int /\ 0 <= x /\ x <= 640 /\ y \in Int /\ 0 <= y /\ y <= 480
  BY CourseRange DEF Typed
<1>3. RegistersTypeOK'
  <2>1. CASE UNCHANGED registers
    BY <2>1 DEF Typed, RegistersTypeOK, registers
  <2>2. CASE BusWrite(0, 64)
    BY <2>2, BusWriteType DEF Typed
  <2>3. CASE SetX
    <3>1. x % 2^16 \in Nat
      BY <1>2, SMT
    <3> QED
      BY <2>3, <3>1, BusWriteType DEF Typed, SetX
  <2>4. CASE SetY
    <3>1. y % 2^16 \in Nat
      BY <1>2, SMT
    <3> QED
      BY <2>4, <3>1, BusWriteType DEF Typed, SetY
  <2> QED
    BY <2>1, <2>2, <2>3, <2>4
       DEF Next, OpenDevice, SetBackground, SetFails, Move, Ended, vars
<1>4. fails' \in 0 .. MaxFails
  BY HelloAssumption
     DEF Typed, Next, OpenDevice, SetBackground, SetX, SetY, SetFails, Move, Advance, Ended, vars
<1>5. pc' \in Pcs
  BY DEF Typed, Pcs, Next, OpenDevice, SetBackground, SetX, SetY, SetFails, Move, Ended, vars
<1> QED
  BY <1>1, <1>3, <1>4, <1>5 DEF Typed

(* They are in range at every time.                                        *)
LEMMA TypedAlways == Spec => []Typed
BY TypedInit, TypedStep, PTL DEF Spec

(* What hello.c sends is never negative and at most one past the screen.   *)
THEOREM HelloTypeCorrect == Spec => []HelloTypeOK
<1>1. Typed => HelloTypeOK
  BY CourseRange DEF Typed, HelloTypeOK
<1> QED
  BY <1>1, TypedAlways, PTL

-----------------------------------------------------------------------------
(* The first half of a call that works has set X.                          *)
Half == pc = "y" /\ x < 640 => ball_x = x

(* After a call of set_ball_pos that works, the ball is where hello.c      *)
(* wants it, but for the edges.                                            *)
THEOREM FollowsCorrect == Spec => []Follows
<1>1. Init => Half /\ Follows
  BY DEF Init, Half, Follows
<1>2. Typed /\ Half /\ Follows /\ [Next]_vars => Half' /\ Follows'
  <2> SUFFICES ASSUME Typed, Half, Follows, [Next]_vars
               PROVE  Half' /\ Follows'
    OBVIOUS
  <2>0. x \in Int /\ y \in Int /\ fails \in Nat
    BY CourseRange, HelloAssumption DEF Typed
  <2>1. CASE SetX
    BY <2>0, <2>1, Writes DEF SetX, Half, Follows, ball
  <2>2. CASE SetY
    <3>1. /\ pc = "y" /\ pc' = "move" /\ x' = x /\ y' = y /\ ball_x' = ball_x
          /\ ball_y' = IF y <= 479 THEN y ELSE ball_y
      BY <2>2, Writes DEF SetY, ball
    <3> QED
      BY <2>0, <3>1 DEF Half, Follows
  <2>3. CASE SetFails
    BY <2>0, <2>3 DEF SetFails, Half, Follows, ball
  <2>4. CASE pc' \notin {"y", "move"}
    BY <2>4 DEF Half, Follows
  <2>5. CASE UNCHANGED vars
    BY <2>5 DEF Half, Follows, vars, ball, registers
  <2> QED
    BY <2>1, <2>2, <2>3, <2>4, <2>5
       DEF Next, OpenDevice, SetBackground, Move, Ended
<1> QED
  BY <1>1, <1>2, TypedAlways, PTL DEF Spec

-----------------------------------------------------------------------------
Reach == 2 * (MaxFails + 1)

(* A coordinate b on the screen against the c of the program, f steps      *)
(* after the last call that worked: no further behind than the steps, or   *)
(* that call was ignored at the far edge and the ball rests near it.       *)
Behind(b, c, d, size, f) ==
  \/ c - b <= 2 * f /\ b - c <= 2 * f
  \/ c = size - 2 * f /\ d = -2 /\ size - Reach <= b

(* The number of failures in a row that is looked at.                      *)
LEMMA ReachRange == MaxFails \in Int /\ 0 <= MaxFails /\ MaxFails <= 99
BY HelloAssumption

(* The first call that works comes before the first edge.                  *)
LEMMA FirstInside ==
  ASSUME Course, i <= MaxFails
  PROVE  x < 640 /\ y < 480
<1>1. i \in Nat /\ i <= 99
  BY ReachRange DEF Course
<1>2. Reflected(320, 640, i) < 640 /\ Reflected(240, 480, i) < 480
  BY <1>1, SMT DEF Reflected
<1> QED
  BY <1>2 DEF Course

(* A call has worked before when i > fails at the top of the loop.         *)
Smooth ==
  /\ pc \in {"open", "colour"} => i = 0 /\ fails = 0
  /\ pc \in {"x", "y"} => fails <= i
  /\ pc = "move" => fails <= i + 1
  /\ pc = "x" /\ fails < i => /\ Behind(ball_x, x, dx, 640, fails + 1)
                              /\ Behind(ball_y, y, dy, 480, fails + 1)
  /\ pc = "y" => Behind(ball_x, x, dx, 640, 0)
  /\ pc = "y" /\ fails < i => Behind(ball_y, y, dy, 480, fails + 1)
  /\ pc = "move" /\ fails <= i => /\ Behind(ball_x, x, dx, 640, fails)
                                  /\ Behind(ball_y, y, dy, 480, fails)

(* The ranges, number by number.                                           *)
LEMMA Ranges ==
  ASSUME Typed
  PROVE  /\ x \in Int /\ 0 <= x /\ x <= 640 /\ (x = 640 => dx = -2)
         /\ y \in Int /\ 0 <= y /\ y <= 480 /\ (y = 480 => dy = -2)
         /\ dx \in Int /\ dy \in Int /\ (dx = 2 \/ dx = -2) /\ (dy = 2 \/ dy = -2)
         /\ fails \in Int /\ 0 <= fails /\ fails <= MaxFails
         /\ ball_x \in Int /\ ball_x < 640 /\ ball_y \in Int /\ ball_y < 480
         /\ i \in Nat
BY CourseRange, ReachRange DEF Typed, RegistersTypeOK, Course

(* A call that fails adds one step to the distance, one that works ends it. *)
LEMMA SmoothStep ==
  ASSUME Typed, Smooth, [Next]_vars
  PROVE  Smooth'
<1> USE Ranges
<1>1. CASE OpenDevice
  BY <1>1 DEF OpenDevice, Smooth, ball
<1>2. CASE SetBackground
  BY <1>2 DEF SetBackground, Smooth, ball
<1>3. CASE SetX
  <2>1. /\ pc = "x" /\ pc' = "y" /\ x' = x /\ dx' = dx /\ y' = y /\ dy' = dy
        /\ i' = i /\ fails' = fails
        /\ ball_x' = IF x <= 640 - 1 THEN x ELSE ball_x
        /\ ball_y' = ball_y
    BY <1>3, Writes DEF SetX, ball
  <2>2. x < 640 \/ Behind(ball_x, x, dx, 640, fails + 1)
    <3>1. CASE fails < i
      BY <3>1, <2>1 DEF Smooth
    <3>2. CASE ~(fails < i)
      BY <3>2, <2>1, FirstInside DEF Smooth, Typed
    <3> QED
      BY <3>1, <3>2
  <2>3. Behind(IF x <= 640 - 1 THEN x ELSE ball_x, x, dx, 640, 0)
    BY <2>2, ReachRange DEF Behind, Reach
  <2>4. Behind(ball_x', x, dx, 640, 0)
    BY <2>1, <2>3
  <2> QED
    BY <2>1, <2>4 DEF Smooth
<1>4. CASE SetY
  <2>1. /\ pc = "y" /\ pc' = "move" /\ x' = x /\ dx' = dx /\ y' = y /\ dy' = dy
        /\ i' = i /\ fails' = 0
        /\ ball_y' = IF y <= 480 - 1 THEN y ELSE ball_y
        /\ ball_x' = ball_x
    BY <1>4, Writes DEF SetY, ball
  <2>2. y < 480 \/ Behind(ball_y, y, dy, 480, fails + 1)
    <3>1. CASE fails < i
      BY <3>1, <2>1 DEF Smooth
    <3>2. CASE ~(fails < i)
      BY <3>2, <2>1, FirstInside DEF Smooth, Typed
    <3> QED
      BY <3>1, <3>2
  <2>3. Behind(IF y <= 480 - 1 THEN y ELSE ball_y, y, dy, 480, 0)
    BY <2>2, ReachRange DEF Behind, Reach
  <2>4. Behind(ball_y', y, dy, 480, 0)
    BY <2>1, <2>3
  <2> QED
    BY <2>1, <2>4 DEF Smooth
<1>5. CASE SetFails
  BY <1>5 DEF SetFails, Smooth, ball, registers
<1>6. CASE Move
  <2>1. /\ pc = "move" /\ pc' \in {"x", "ended"} /\ x' = x + dx /\ y' = y + dy
        /\ dx' = Turn(dx, x + dx, 640) /\ dy' = Turn(dy, y + dy, 480)
        /\ i' = i + 1 /\ fails' = fails /\ ball_x' = ball_x /\ ball_y' = ball_y
    BY <1>6 DEF Move, Advance, registers
  <2>2. fails <= i => /\ Behind(ball_x, x + dx, Turn(dx, x + dx, 640), 640, fails + 1)
                      /\ Behind(ball_y, y + dy, Turn(dy, y + dy, 480), 480, fails + 1)
    <3> SUFFICES ASSUME fails <= i
                 PROVE  /\ Behind(ball_x, x + dx, Turn(dx, x + dx, 640), 640, fails + 1)
                        /\ Behind(ball_y, y + dy, Turn(dy, y + dy, 480), 480, fails + 1)
      OBVIOUS
    <3>1. Behind(ball_x, x, dx, 640, fails) /\ Behind(ball_y, y, dy, 480, fails)
      BY <2>1 DEF Smooth
    <3>2. Behind(ball_x, x + dx, Turn(dx, x + dx, 640), 640, fails + 1)
      BY <3>1, ReachRange DEF Behind, Turn, Reach
    <3>3. Behind(ball_y, y + dy, Turn(dy, y + dy, 480), 480, fails + 1)
      BY <3>1, ReachRange DEF Behind, Turn, Reach
    <3> QED
      BY <3>2, <3>3
  <2> QED
    BY <2>1, <2>2 DEF Smooth
<1>7. CASE UNCHANGED vars
  BY <1>7 DEF Smooth, vars, ball, registers
<1> QED
  BY <1>1, <1>2, <1>3, <1>4, <1>5, <1>6, <1>7 DEF Next, Ended

(* The ball on the screen never jumps further than the steps of hello.c    *)
(* since the last call that moved it.                                      *)
THEOREM SmoothCorrect == Spec => MovesSmoothly
<1> DEFINE Within(m, n, lag) == m - n \in -lag .. lag
           Small == i > fails => /\ Within(ball_x', ball_x, Lag(x, 640))
                                 /\ Within(ball_y', ball_y, Lag(y, 480))
<1>1. Init => Smooth
  BY DEF Init, Start, Smooth
<1>2. Typed /\ Smooth /\ [Next]_vars => [Small]_vars
  <2> SUFFICES ASSUME Typed, Smooth, Next, i > fails
               PROVE  /\ Within(ball_x', ball_x, Lag(x, 640))
                      /\ Within(ball_y', ball_y, Lag(y, 480))
    OBVIOUS
  <2> USE Ranges
  <2>0. /\ Lag(x, 640) \in Nat /\ Within(ball_x, ball_x, Lag(x, 640))
        /\ Lag(y, 480) \in Nat /\ Within(ball_y, ball_y, Lag(y, 480))
    BY ReachRange DEF Lag
  <2>1. CASE SetX
    <3>1. /\ pc = "x" /\ ball_x' = IF x <= 640 - 1 THEN x ELSE ball_x
          /\ ball_y' = ball_y
      BY <2>1, Writes DEF SetX
    <3>2. Behind(ball_x, x, dx, 640, fails + 1)
      BY <3>1 DEF Smooth
    <3>3. x <= 640 - 1 => Within(x, ball_x, Lag(x, 640))
      BY <3>2, ReachRange DEF Behind, Reach, Lag
    <3> QED
      BY <2>0, <3>1, <3>3
  <2>2. CASE SetY
    <3>1. /\ pc = "y" /\ ball_y' = IF y <= 480 - 1 THEN y ELSE ball_y
          /\ ball_x' = ball_x
      BY <2>2, Writes DEF SetY
    <3>2. Behind(ball_y, y, dy, 480, fails + 1)
      BY <3>1 DEF Smooth
    <3>3. y <= 480 - 1 => Within(y, ball_y, Lag(y, 480))
      BY <3>2, ReachRange DEF Behind, Reach, Lag
    <3> QED
      BY <2>0, <3>1, <3>3
  <2>3. CASE SetBackground
    BY <2>3 DEF SetBackground, Smooth
  <2>4. CASE UNCHANGED registers
    BY <2>0, <2>4 DEF registers
  <2> QED
    BY <2>1, <2>2, <2>3, <2>4 DEF Next, OpenDevice, SetFails, Move, Ended, vars
<1> QED
  BY <1>1, <1>2, SmoothStep, TypedAlways, PTL DEF Spec, MovesSmoothly, StaysClose

-----------------------------------------------------------------------------
(* The program and the circuit together: the program starts while the      *)
(* counters are anywhere; on every edge of the clock they move on, and the *)
(* program takes a step or none.  The reset line stays down.               *)
VARIABLES hcount, vcount

Words == (0 .. 7) \X Nat

circuit == INSTANCE VgaBallProofs WITH Writes <- Words, reset <- FALSE

ShowSpec ==
  /\ Init /\ circuit!CountersTypeOK
  /\ [][circuit!Count /\ [Next]_vars]_<<vars, hcount, vcount>>

(* After a call of set_ball_pos that works, every pixel of the visible     *)
(* area belongs to the disk around the position hello.c has computed, or   *)
(* to the background.  Where that is one past an edge, the ball rests.     *)
ShowsBall ==
  LET across == hcount \div 2 - x
      below == vcount - y
  IN /\ pc = "move" /\ fails = 0 /\ x < 640 /\ y < 480
     /\ hcount < circuit!HACTIVE /\ vcount < circuit!VACTIVE
     => circuit!Colour = IF across * across + below * below <= 256 THEN circuit!Red
                         ELSE background

(* Every step of the program writes one word or none.                      *)
LEMMA StepWrites ==
  ASSUME Typed, [Next]_vars
  PROVE  UNCHANGED registers \/ \E w \in Words : BusWrite(w[1], w[2])
<1>1. <<0, 64>> \in Words /\ <<1, x % 2^16>> \in Words /\ <<2, y % 2^16>> \in Words
  <2>1. x \in Int /\ 0 <= x /\ y \in Int /\ 0 <= y
    BY CourseRange DEF Typed
  <2>2. x % 2^16 \in Nat /\ y % 2^16 \in Nat
    BY <2>1, SMT
  <2> QED
    BY <2>2 DEF Words
<1>2. \/ UNCHANGED registers \/ BusWrite(0, 64)
      \/ BusWrite(1, x % 2^16) \/ BusWrite(2, y % 2^16)
  BY DEF Next, OpenDevice, SetBackground, SetX, SetY, SetFails, Move, Ended, vars
<1> QED
  BY <1>1, <1>2

(* hello.c, the words that reach the registers and the comparators of      *)
(* vga_ball.sv together show the ball where the program has put it, at     *)
(* every clock until it moves it on.                                       *)
THEOREM ShowsBallCorrect == ShowSpec => []ShowsBall
<1>1. Init /\ circuit!CountersTypeOK => circuit!VgaTypeOK
  BY TypedInit DEF Typed, circuit!VgaTypeOK, RegistersTypeOK, circuit!RegistersTypeOK
<1>2. [circuit!Count /\ [Next]_vars]_<<vars, hcount, vcount>> => [Next]_vars
  BY DEF vars
<1>3. Typed /\ circuit!VgaTypeOK /\ [circuit!Count /\ [Next]_vars]_<<vars, hcount, vcount>>
        => circuit!VgaTypeOK'
  <2> SUFFICES ASSUME Typed, circuit!VgaTypeOK,
                      [circuit!Count /\ [Next]_vars]_<<vars, hcount, vcount>>
               PROVE  circuit!VgaTypeOK'
    OBVIOUS
  <2>1. CASE circuit!Count /\ [Next]_vars
    <3>1. UNCHANGED registers \/ \E w \in Words : BusWrite(w[1], w[2])
      BY <2>1, StepWrites
    <3>2. circuit!Edge
      BY <2>1, <3>1 DEF circuit!Edge, registers, circuit!registers, BusWrite,
                        circuit!BusWrite, InRange, circuit!InRange
    <3>3. [circuit!Next]_(circuit!vars)
      BY <3>2 DEF circuit!Next
    <3>4. Words \subseteq (0 .. 7) \X Nat
      BY DEF Words
    <3> QED
      BY <3>3, <3>4, circuit!TypeStep
  <2>2. CASE UNCHANGED <<vars, hcount, vcount>>
    BY <2>2 DEF vars, registers, circuit!VgaTypeOK, circuit!CountersTypeOK,
                circuit!RegistersTypeOK
  <2> QED
    BY <2>1, <2>2
<1>4. Follows /\ circuit!VgaTypeOK => ShowsBall
  <2>1. circuit!VgaTypeOK => circuit!DrawsDisk
    <3>1. Words \subseteq (0 .. 7) \X Nat
      BY DEF Words
    <3> QED
      BY <3>1, circuit!DiskDrawn
  <2> QED
    BY <2>1 DEF Follows, ShowsBall, circuit!DrawsDisk
<1>5. ShowSpec => Spec
  BY <1>2, PTL DEF ShowSpec, Spec
<1> QED
  BY <1>1, <1>3, <1>4, <1>5, TypedAlways, FollowsCorrect, PTL DEF ShowSpec
=============================================================================
