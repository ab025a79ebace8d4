----------------------------- MODULE MCVgaBall -----------------------------
(* Another background, the right edge of the screen, the first number past *)
(* each edge, and a word that is not there.                                *)
EXTENDS VgaBall

MCWrites == {<<0, 64>>, <<1, 639>>, <<1, 640>>, <<2, 480>>, <<3, 0>>}
=============================================================================
