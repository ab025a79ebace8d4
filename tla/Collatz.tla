------------------------------ MODULE Collatz ------------------------------
(***************************************************************************)
(* The Collatz iterator, lab1/collatz.sv.  Its two registers are loaded    *)
(* and stepped by one clocked block; every action below is one rising edge *)
(* of clk.  The right-hand sides of the non-blocking assignments read the  *)
(* values before the edge, which is what unprimed variables are here.      *)
(***************************************************************************)
EXTENDS Integers

CONSTANT Words      \* how many values dout can hold: 2^32 in the source

ASSUME WordsAssumption == Words \in Nat /\ Words > 4

VARIABLES dout, done

(* The registers have no reset; the device powers up with them cleared.    *)
Init == dout = 0 /\ done = FALSE

(* Bugs to be caught: the + 1 is forgotten; dout has only 16 bits.         *)
StepWithoutOne(d) == IF d % 2 = 1 THEN (3 * d) % Words ELSE d \div 2
StepNarrow(d) == IF d % 2 = 1 THEN (3 * d + 1) % 65536 ELSE d \div 2

(* What one iteration makes of d, in the width of the register.            *)
Step(d) == IF d % 2 = 1 THEN (3 * d + 1) % Words ELSE d \div 2

(* go is low and the iterator runs: done rises on the edge that takes dout *)
(* from 2 to 1.                                                            *)
Iterate == dout' = Step(dout) /\ done' = (dout = 2)

(* go is low and the sequence has ended: nothing moves until the next go.  *)
Rest == UNCHANGED <<dout, done>>

(* go is high: load n.  It comes after the test for 2, so it wins.         *)
Load(n) == dout' = n /\ done' = FALSE

Tick(go, n) ==
  \/ go /\ Load(n)
  \/ ~go /\ done /\ Rest
  \/ ~go /\ ~done /\ Iterate
=============================================================================
