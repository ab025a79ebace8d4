-------------------------------- MODULE Lab1 --------------------------------
(***************************************************************************)
(* The board of lab1/lab1.sv: range between the switches, the four keys    *)
(* and the displays.  A run is started with the go key; when it is over,   *)
(* the add, sub and reset keys move through its results.  One step is one  *)
(* rising edge of CLOCK_50, taken by lab1's own block and by range.        *)
(*                                                                         *)
(* The keys are what debouncer and button_press make of them: go is a      *)
(* debounced level (see Debounced); add_pulse, sub_pulse and reset, which  *)
(* only lab1's block reads, may have any value on every edge.              *)
(***************************************************************************)
EXTENDS Range, Hex7seg

CONSTANT Switches           \* what the switches are set to

(* What lab1.sv puts on start is a setting of the switches or an address.  *)
(* A key on the edge after done can override the first load of start: go   *)
(* is held for longer than that (2^14 edges in the source).                *)
ASSUME BoardAssumption ==
  Switches \cup 0 .. RAM_WORDS - 1 \subseteq Starts /\ MinHold >= 4

VARIABLES
  SW,                                 \* input wire; go is one of range's
  ready, start_index,                 \* lab1's registers; start is range's
  sampledSW,                          \* history: SW at the last edge
  clash                               \* history: go met the last word

top   == <<ready, start_index>>
lvars == <<vars, SW, top, sampledSW, clash>>

LabInit ==
  /\ Init /\ start = 0
  /\ SW \in Switches
  /\ ready = FALSE /\ start_index = 0
  /\ sampledSW = SW /\ clash = FALSE

(* Bugs to be caught: the end of a run leaves the address where it was;    *)
(* the switches are only read when no run is in progress.                  *)
LoadedStartKept == IF go THEN SW ELSE start
LoadedStartIdle == IF done THEN 0 ELSE IF go /\ ~running THEN SW ELSE start

(* What the registers become unless a key below moves them: the last of    *)
(* the assignments under go and done wins.                                 *)
LoadedStart == IF done THEN 0 ELSE IF go THEN SW ELSE start
LoadedIndex == IF go THEN 0 ELSE start_index

(* add_pulse; it does nothing at the last word.                            *)
Add == /\ ready /\ start < RAM_WORDS - 1
       /\ start' = (start + 1) % Words
       /\ start_index' = (start_index + 1) % RAM_WORDS

(* A bug to be caught: sub forgets the index.                              *)
SubStartOnly == ready /\ start > 0 /\ start' = start - 1 /\ UNCHANGED start_index

(* sub_pulse; it does nothing at the first word.                           *)
Sub == /\ ready /\ start > 0
       /\ start' = start - 1
       /\ start_index' = (start_index - 1) % RAM_WORDS

Reset == ready /\ start' = 0 /\ start_index' = 0

(* No key, or one that does nothing.                                       *)
Keep == start' = LoadedStart /\ start_index' = LoadedIndex

ReadyNext == done \/ (ready /\ ~go)

(* lab1's block: its if-chain takes one of the keys that are down, add     *)
(* before sub before reset, and overrides what go and done assign.         *)
Board ==
  /\ \/ Add
     \/ Sub
     \/ Reset
     \/ Keep
  /\ ready' = ReadyNext

Keys == btn!Next /\ SW' \in Switches

LabNext ==
  /\ Tick
  /\ Board
  /\ Keys
  /\ sampledSW' = SW
  /\ clash' = (clash \/ (go /\ LastWord))

LabSpec == LabInit /\ [][LabNext]_lvars

LabFairSpec == LabSpec /\ WF_lvars(LabNext)

(* The number on the left three displays, 12 bits wide.                    *)
start_display == (SW + start_index) % 4096

(* HEX5 .. HEX3 show start_display, HEX2 .. HEX0 the low 12 bits of count. *)
HEX(i) == y(((IF i >= 3 THEN start_display ELSE count % 4096)
               \div 16^(i % 3)) % 16)

-----------------------------------------------------------------------------
(* While the keys are live, the RAM address of range and the index lab1.sv *)
(* adds to the switches stay the same number, at both ends of the RAM and  *)
(* whichever keys, go and done come together on an edge, as long as go has *)
(* never met the edge that stores the last word of a run; and no run is    *)
(* under way then, unless go begins it on the edge of done.                *)
IndexTracks == ready /\ ~clash => start = start_index /\ (running => go)

(* An edge on which lab1.sv shows results of a finished run puts the       *)
(* length for the index on the display, not that of a neighbour, of an     *)
(* earlier run or of a run that was interrupted.                           *)
ShowsLength ==
  [][ready /\ ~running /\ ~clash /\ Covered =>
       count' = Length[base + start_index]]_lvars

(* When the go key is let go, the run has begun at the number the switches *)
(* show: holds in every history in which go never met the edge that stores *)
(* the last word of a run.                                                 *)
LoadsSwitches == [][go /\ ~go' /\ ~clash' => base' = sampledSW]_lvars

(* A run that is not interrupted makes the results available.              *)
ResultsComeUp == (running /\ Covered) ~> (ready \/ go)

(* "Left 3 digits: n in decimal", "Right 3 digits: iteration count in      *)
(* decimal" (lab1.sv:55, 59; line 70 says how the digits are extracted).   *)
DrawsDecimal ==
  \A i \in 0 .. 2 : /\ Shows(HEX(i), (count \div 10^i) % 10)
                    /\ Shows(HEX(i + 3), ((SW + start_index) \div 10^i) % 10)

(* lab1.sv:29 says of go that it "starts the range module from the initial *)
(* value on SW".                                                           *)
GoStartsFromSwitches == [][go /\ ~go' => base' = sampledSW]_lvars
=============================================================================
