---------------------------- MODULE ButtonPress ----------------------------
(***************************************************************************)
(* lab1/button_press.sv behind lab1/debouncer.sv, as lab1.sv wires them    *)
(* for the add and sub keys: a press becomes one pulse and, when the       *)
(* button stays down, a pulse after HOLD edges and one every REPEAT edges  *)
(* from then on.  One step is one rising edge, taken by both circuits.     *)
(***************************************************************************)
EXTENDS Debouncer

CONSTANTS HOLD, REPEAT,   \* 25_000_000 and 5_000_000 in the source
          Cnts            \* values of the register cnt: 2^25 in the source

ASSUME PressAssumption ==
  /\ HOLD \in Nat \ {0} /\ REPEAT \in Nat \ {0}
  /\ Cnts \in Nat /\ HOLD < Cnts /\ REPEAT < Cnts

VARIABLES prev, cnt, held, pulse,
          down            \* history: edges that have sampled this press

btn == next

pressVars == <<vars, prev, cnt, held, pulse, down>>

PressInit ==
  /\ Init
  /\ prev = FALSE /\ cnt = 0 /\ held = FALSE /\ pulse = FALSE /\ down = 0

(* A bug to be caught: a release forgets to leave the repeating mode.      *)
ReleaseKeepingMode == ~btn /\ pulse' = FALSE /\ cnt' = 0 /\ UNCHANGED held

Release == ~btn /\ pulse' = FALSE /\ cnt' = 0 /\ held' = FALSE

Press == btn /\ ~prev /\ pulse' = TRUE /\ UNCHANGED <<cnt, held>>

Threshold == (IF held THEN REPEAT ELSE HOLD) - 1

Count ==
  /\ btn /\ prev /\ cnt < Threshold
  /\ cnt' = (cnt + 1) % Cnts /\ pulse' = FALSE
  /\ UNCHANGED held

Fire ==
  /\ btn /\ prev /\ cnt >= Threshold
  /\ cnt' = 0 /\ pulse' = TRUE /\ held' = TRUE

(* The length of a press, reduced by REPEAT once it is in the repetitions. *)
Longer == IF down = HOLD + REPEAT THEN HOLD + 1 ELSE down + 1

Edge ==
  /\ Release \/ Press \/ Count \/ Fire
  /\ prev' = btn
  /\ down' = IF btn THEN Longer ELSE 0

PressNext == Next /\ Edge

PressSpec == PressInit /\ [][PressNext]_pressVars

-----------------------------------------------------------------------------
(* The edges of a press that pulse, by the comment in button_press.sv: the *)
(* first, the one HOLD later, and then every REPEAT-th.                    *)
Due(k) == k = 1 \/ (k > HOLD /\ (k - 1 - HOLD) % REPEAT = 0)

(* button_press.sv pulses on these edges of a press and on no other, after *)
(* any sequence of earlier presses, releases and bounces.                  *)
PulsesWhenDue == pulse <=> Due(down)
=============================================================================
