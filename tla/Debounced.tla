----------------------------- MODULE Debounced -----------------------------
(***************************************************************************)
(* What lab1/debouncer.sv promises to the circuits behind it: a level that *)
(* never changes before it has been sampled MinHold times.  lab1.sv drives *)
(* range and button_press from such levels only.                           *)
(***************************************************************************)
EXTENDS Integers

CONSTANT MinHold    \* 2^14 with the 14-bit timer of the source

VARIABLES level,    \* the debounced button
          age       \* edges that have sampled this level, counted to MinHold

Init == level = FALSE /\ age = 0

Stay == level' = level /\ age' = IF age < MinHold THEN age + 1 ELSE age

(* The edge that changes the level still samples the old one.              *)
Toggle == age + 1 >= MinHold /\ level' = ~level /\ age' = 0

Next == Stay \/ Toggle

Spec == Init /\ [][Next]_<<level, age>>
=============================================================================
