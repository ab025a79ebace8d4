-------------------------- MODULE MCHelloOnDriver --------------------------
(* Two colours that differ in every byte, the second one that of hello.c,  *)
(* and two positions: one in the corner of the screen, and the first one   *)
(* past it.  The ball starts where the driver puts it, or where another    *)
(* run of hello.c may have left it.                                        *)
EXTENDS HelloOnDriver

MCColours == {<<1, 2, 3>>, <<0, 0, 64>>}
MCPositions == {<<639, 479>>, <<640, 480>>}
MCLeft == {<<320, 240>>, <<2, 478>>}
=============================================================================
