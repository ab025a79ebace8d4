-------------------------- MODULE CollatzReference --------------------------
(* The Collatz sequence by its definition, for the instances that are      *)
(* model-checked: the numbers on the way from k to 2, and how many numbers *)
(* there are from k to 1.                                                  *)
EXTENDS Integers

Successor(k) == IF k % 2 = 0 THEN k \div 2 ELSE 3 * k + 1

RECURSIVE Orbit(_)
Orbit(k) == IF k <= 2 THEN {k} ELSE {k} \cup Orbit(Successor(k))

RECURSIVE CollatzLength(_)
CollatzLength(k) == IF k = 1 THEN 1 ELSE 1 + CollatzLength(Successor(k))
=============================================================================
