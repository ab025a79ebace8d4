----------------------------- MODULE Debouncer -----------------------------
(***************************************************************************)
(* lab1/debouncer.sv: two synchronising flip-flops and a timer that must   *)
(* run through before the output follows the button.  One step is one      *)
(* rising edge; switch is the bouncing input wire.  Two history variables  *)
(* record what the output has done (age) and what the edges have sampled   *)
(* (past), for the properties only.                                        *)
(***************************************************************************)
EXTENDS Integers

CONSTANT Ticks      \* values of the timer: 2^14 in the source

ASSUME TicksAssumption == Ticks \in Nat \ {0}

VARIABLES
  switch,                   \* input wire
  sync_0, sync_1, timer, next,
  age,                      \* edges that have sampled next, up to Ticks
  past                      \* past[i]: switch at the i-th edge before now

vars == <<switch, sync_0, sync_1, timer, next, age, past>>

History == 1 .. Ticks + 2

Init ==
  /\ switch = FALSE /\ sync_0 = FALSE /\ sync_1 = FALSE
  /\ timer = 0 /\ next = FALSE
  /\ age = 0 /\ past = [i \in History |-> FALSE]

Synchronize == sync_0' = switch /\ sync_1' = sync_0

(* A bug to be caught: the timer keeps its value through a bounce.         *)
AgreePausing == next = sync_1 /\ UNCHANGED <<timer, next>>

Agree == next = sync_1 /\ timer' = 0 /\ UNCHANGED next

(* A bug to be caught: the output follows when the timer is one short.     *)
DisagreeEarly ==
  /\ next # sync_1
  /\ timer' = (timer + 1) % Ticks
  /\ next' = IF timer + 1 >= Ticks - 1 THEN ~next ELSE next

(* A bug to be caught: the output follows one edge late.                   *)
DisagreeLate ==
  /\ next # sync_1
  /\ timer' = IF timer = Ticks THEN 0 ELSE timer + 1
  /\ next' = IF timer = Ticks THEN ~next ELSE next

(* The timer wraps to 0 on the edge that changes the output.               *)
Disagree ==
  /\ next # sync_1
  /\ timer' = (timer + 1) % Ticks
  /\ next' = IF timer = Ticks - 1 THEN ~next ELSE next

Next ==
  /\ Synchronize
  /\ Agree \/ Disagree
  /\ switch' \in BOOLEAN
  /\ age' = IF next' # next THEN 0 ELSE IF age < Ticks THEN age + 1 ELSE age
  /\ past' = [i \in History |-> IF i = 1 THEN switch ELSE past[i - 1]]

Spec == Init /\ [][Next]_vars

-----------------------------------------------------------------------------
TypeOK ==
  /\ switch \in BOOLEAN /\ sync_0 \in BOOLEAN /\ sync_1 \in BOOLEAN
  /\ timer \in 0 .. Ticks - 1 /\ next \in BOOLEAN
  /\ age \in 0 .. Ticks /\ past \in [History -> BOOLEAN]

(* The output of debouncer.sv never changes before it has been sampled     *)
(* Ticks times: the contract range.sv and button_press.sv are used under.  *)
D == INSTANCE Debounced WITH level <- next, MinHold <- Ticks

Refines == D!Spec

(* No bounce gets through: the output of debouncer.sv changes only when    *)
(* Ticks samples in a row, two edges back, had the new value.              *)
NoBounce == [][next' # next => \A i \in 2 .. Ticks + 1 : past[i] # next]_vars

(* A button held for Ticks + 2 edges has reached the output of             *)
(* debouncer.sv, whatever bounces came before.                             *)
Responds ==
  \A v \in BOOLEAN : (\A i \in History : past[i] = v) => next = v
=============================================================================
