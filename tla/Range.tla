------------------------------- MODULE Range -------------------------------
(***************************************************************************)
(* The range circuit of lab1/range.sv: it feeds RAM_WORDS consecutive      *)
(* numbers, from start on, to a Collatz iterator, counts the iterations of *)
(* each and stores the counts in a RAM.  One step is one rising edge of    *)
(* clk: the control block, the RAM port and the iterator all move on it.   *)
(* The inputs go and start are wires, sampled by the edge; the environment *)
(* gives them their next values in the same step.                          *)
(***************************************************************************)
EXTENDS Integers

CONSTANTS
  RAM_WORDS,  \* words of RAM; num and the read address are taken modulo it
  Words,      \* values of a 32-bit register
  Counts,     \* values of the 16-bit count register din
  Starts,     \* what the environment may put on start
  MinHold,    \* edges for which the environment holds go at a level
  Good,       \* numbers whose sequence reaches 1 within the registers
  Length      \* Length[n]: elements of the Collatz sequence from n to 1

(* Length is the reference the circuit is compared with: the recurrence of *)
(* the Collatz sequence, without a register width.  Good excludes 0, whose *)
(* sequence never ends, and 1, which the iterator takes through 4 and 2.   *)
ASSUME RangeAssumption ==
  /\ RAM_WORDS \in Nat \ {0}
  /\ Words \in Nat /\ Words > 4
  /\ Counts \in Nat /\ Counts > 1
  /\ Starts \subseteq 0 .. Words - 1
  /\ MinHold \in Nat /\ MinHold >= 3
  /\ Good \subseteq 2 .. Words - 1
  /\ \A g \in Good :
       /\ Length[g] \in 2 .. Counts - 1
       /\ g = 2 => Length[g] = 2
       /\ g # 2 /\ g % 2 = 0 => /\ g \div 2 \in Good
                                /\ Length[g] = 1 + Length[g \div 2]
       /\ g % 2 = 1 => /\ 3 * g + 1 \in Good
                       /\ Length[g] = 1 + Length[3 * g + 1]

VARIABLES
  go, start,              \* input wires
  age,                    \* edges that have sampled go at its level
  running, done,          \* the control registers
  cgo, n, num, we, din,
  mem, count,             \* the RAM and its output register
  dout, cdone,            \* the iterator's registers
  base                    \* history: the number the last restart began with

ctrl  == <<running, done, cgo, n, num, we, din>>
ram   == <<mem, count>>
iter  == <<dout, cdone>>
vars  == <<go, start, age, ctrl, ram, iter, base>>

NoBase == -1

c1  == INSTANCE Collatz WITH done <- cdone
btn == INSTANCE Debounced WITH level <- go

-----------------------------------------------------------------------------
(* Only running has an initial value in the source; the device powers up   *)
(* with the other registers and the RAM cleared.                           *)
Init ==
  /\ btn!Init /\ start \in Starts
  /\ running = FALSE /\ done = FALSE
  /\ cgo = FALSE /\ n = 0 /\ num = 0 /\ we = FALSE /\ din = 0
  /\ mem = [i \in 0 .. RAM_WORDS - 1 |-> 0] /\ count = 0
  /\ c1!Init
  /\ base = NoBase

(* A bug to be caught: the last word is tested for one too late.           *)
LastWordLate == we /\ num = RAM_WORDS

(* The edge that stores the last word.                                     *)
LastWord == we /\ num = RAM_WORDS - 1

(* done is cleared while idle and set with the last word.                  *)
DoneNext == IF LastWord THEN TRUE ELSE running /\ done

(* The iterator has finished the current number and it is not stored yet.  *)
Finished == ~we /\ cdone /\ running

(* A bug to be caught: a restart goes on at the address it interrupted.    *)
RestartKeepingNum ==
  /\ go
  /\ running' = TRUE /\ n' = start /\ din' = 1 /\ cgo' = TRUE
  /\ num' = num
  /\ we' = Finished /\ done' = DoneNext

(* A bug to be caught: the block of go comes first, as lab1/notes.txt says *)
(* it once did, and the others override it.                                *)
RestartFirst ==
  /\ go
  /\ running' = ~LastWord
  /\ n' = IF Finished THEN (n + 1) % Words ELSE start
  /\ num' = IF we THEN (num + 1) % RAM_WORDS ELSE 0
  /\ din' = IF running /\ ~cgo /\ ~we /\ ~cdone THEN (din + 1) % Counts ELSE 1
  /\ cgo' = (Finished \/ ~cgo)
  /\ we' = Finished /\ done' = DoneNext

(* go is high: its assignments come last in the block and override those   *)
(* of the other branches, but we and done are not among them.              *)
Restart ==
  /\ go
  /\ running' = TRUE /\ n' = start /\ num' = 0 /\ din' = 1 /\ cgo' = TRUE
  /\ we' = Finished /\ done' = DoneNext

(* The count in din goes to the RAM (see RamPort) and the next one starts. *)
Store ==
  /\ ~go /\ we
  /\ running' = (running /\ ~LastWord)
  /\ num' = (num + 1) % RAM_WORDS /\ din' = 1
  /\ cgo' = FALSE /\ we' = FALSE /\ done' = DoneNext
  /\ UNCHANGED n

(* The iterator is done: store its count and load the next number.         *)
Collect ==
  /\ ~go /\ Finished
  /\ we' = TRUE /\ cgo' = TRUE /\ n' = (n + 1) % Words /\ done' = DoneNext
  /\ UNCHANGED <<running, num, din>>

(* The iterator is running: count the iteration it makes on this edge.     *)
CountIteration ==
  /\ ~go /\ ~we /\ ~cdone /\ running /\ ~cgo
  /\ din' = (din + 1) % Counts
  /\ cgo' = FALSE /\ we' = FALSE /\ done' = DoneNext
  /\ UNCHANGED <<running, n, num>>

(* Idle, or the edge on which the iterator loads n after go was released.  *)
Wait ==
  /\ ~go /\ ~we /\ ~Finished /\ ~(running /\ ~cgo)
  /\ cgo' = FALSE /\ we' = FALSE /\ done' = DoneNext
  /\ UNCHANGED <<running, n, num, din>>

Control == Restart \/ Store \/ Collect \/ CountIteration \/ Wait

addr == IF we THEN num ELSE start % RAM_WORDS

(* The RAM: one port, shared by the writer and the reader; reads return    *)
(* the word as it was before the edge.                                     *)
RamPort ==
  /\ mem' = IF we THEN [mem EXCEPT ![addr] = din] ELSE mem
  /\ count' = mem[addr]

Tick ==
  /\ Control
  /\ RamPort
  /\ c1!Tick(cgo, n)
  /\ base' = IF go THEN start ELSE base

(* The surroundings: go is debounced, start may change on every edge.      *)
Inputs == btn!Next /\ start' \in Starts

Next == Tick /\ Inputs

Spec == Init /\ [][Next]_vars

-----------------------------------------------------------------------------
TypeOK ==
  /\ go \in BOOLEAN /\ start \in 0 .. Words - 1 /\ age \in 0 .. MinHold
  /\ running \in BOOLEAN /\ done \in BOOLEAN /\ cgo \in BOOLEAN
  /\ n \in 0 .. Words - 1 /\ num \in 0 .. RAM_WORDS - 1
  /\ we \in BOOLEAN /\ din \in 0 .. Counts - 1
  /\ mem \in [0 .. RAM_WORDS - 1 -> 0 .. Counts - 1]
  /\ count \in 0 .. Counts - 1
  /\ dout \in 0 .. Words - 1 /\ cdone \in BOOLEAN
  /\ base \in {NoBase} \cup 0 .. Words - 1

(* The numbers of the current run all have a sequence that reaches 1.      *)
Covered == base # NoBase /\ base .. base + RAM_WORDS - 1 \subseteq Good

(* When the circuit is idle after a run (range.sv, "memory is filled"),    *)
(* word i of the RAM holds the length of the Collatz sequence of base + i, *)
(* whatever restarts interrupted earlier runs.                             *)
MemoryFilled ==
  ~running /\ Covered =>
    \A i \in 0 .. RAM_WORDS - 1 : mem[i] = Length[base + i]

(* Every word the circuit stores after go has been released is the length  *)
(* of the sequence it is stored for: neither the iteration lost to loading *)
(* nor the one lost to the done handshake is missed or counted twice.      *)
StoresLength ==
  [][~go /\ we /\ Covered => mem'[num] = Length[base + num]]_vars
=============================================================================
