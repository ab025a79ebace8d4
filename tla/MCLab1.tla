------------------------------- MODULE MCLab1 -------------------------------
(* A board with a small RAM and two settings of the switches.              *)
EXTENDS Lab1, CollatzReference

MCGood   == UNION {Orbit(k) : k \in 2 .. 12}
MCLength == [k \in MCGood |-> CollatzLength(k)]
=============================================================================
