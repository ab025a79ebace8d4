---------------------------- MODULE CollatzBench ----------------------------
(***************************************************************************)
(* The iterator on the test bench lab1/collatz.cpp: go is pulsed for two   *)
(* edges, then every edge prints dout until done is seen or the simulated  *)
(* time is over.  With the start values of the board this checks the       *)
(* arithmetic of collatz.sv at its full size: every number lab1 can ask    *)
(* for, SW + 0 .. 255, stays inside the register and ends.                 *)
(***************************************************************************)
EXTENDS Collatz, Sequences

CONSTANTS Numbers,      \* command-line arguments the bench is run with
          Edges         \* rising edges the bench simulates: 500 in the source

VARIABLES n, edge, printed

vars == <<dout, done, n, edge, printed>>

BenchInit ==
  /\ Init
  /\ n \in Numbers /\ edge = 0 /\ printed = <<n>>

(* go is high for the second and the third rising edge (time 30 and 50).   *)
go == edge \in {1, 2}

(* Printing starts at time 60, after go is down again.                     *)
Stopped == edge >= Edges \/ (edge > 3 /\ done)

Edge ==
  /\ ~Stopped
  /\ Tick(go, n)
  /\ edge' = edge + 1
  /\ printed' = IF edge >= 3 THEN Append(printed, dout') ELSE printed
  /\ UNCHANGED n

Next == Edge

Spec == BenchInit /\ [][Next]_vars /\ WF_vars(Next)

-----------------------------------------------------------------------------
(* The sequence by its definition, on unbounded numbers.                   *)
IsCollatz(s) ==
  \A i \in 1 .. Len(s) - 1 :
    s[i + 1] = IF s[i] % 2 = 0 THEN s[i] \div 2 ELSE 3 * s[i] + 1

(* What the bench prints is a prefix of the Collatz sequence of n: no      *)
(* product 3 * dout + 1 is ever cut off by the register of collatz.sv, and *)
(* the sequence is stopped at its first 1, not before and not after.       *)
PrintsSequence ==
  /\ IsCollatz(printed)
  /\ \A i \in 2 .. Len(printed) : printed[i] = 1 <=> (i = Len(printed) /\ done)

(* Every start value the board can produce ends while the bench is still   *)
(* running, and its length fits the 12 bits of it that lab1.sv shows.      *)
Ends == <>(done /\ Stopped /\ Len(printed) < 4096)
=============================================================================
