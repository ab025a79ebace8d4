--------------------------- MODULE HelloOnDriver ---------------------------
(***************************************************************************)
(* lab3/lab3-sw/hello.c on the driver lab3/lab3-sw/vga_ball.c: its ioctl   *)
(* calls are taken through the driver access by access, in place of the    *)
(* two writes that Hello has for a call.  The program runs alone, on a     *)
(* driver that is loaded; while it is absent, any processes use the driver *)
(* and load and remove it.                                                 *)
(***************************************************************************)
EXTENDS VgaBallDriver, HelloLoop

CONSTANT hello                  \* the process that runs it

ASSUME HelloRuns == hello \in Procs

VARIABLE where                  \* the call main is at, or "absent"

dvars == <<vars, where, ball, fails>>

(* Where main stands for the registers: a call is over for them once its   *)
(* words are written.                                                      *)
Seen ==
  IF where = "colour" THEN IF at[hello] \in {"idle", "background"} THEN "colour" ELSE "x"
  ELSE IF where = "pos"
       THEN IF at[hello] \in {"idle", "x"} THEN "x"
            ELSE IF at[hello] = "y" THEN "y" ELSE "move"
       ELSE where

prog == INSTANCE Hello WITH pc <- Seen

DrivenInit ==
  /\ where = "open" /\ open = {} /\ at = [p \in Procs |-> "idle"]
  /\ arg = [p \in Procs |-> <<>>] /\ early = {} /\ mixed = {}
  /\ module = "loaded" /\ going = FALSE
  /\ misc = TRUE /\ region = TRUE /\ mapped = TRUE
  /\ background = beige /\ \E q \in Left : ball_x = q[1] /\ ball_y = q[2]
  /\ dev = [background |-> background, ball_x |-> ball_x, ball_y |-> ball_y]
  /\ Start

OpenCall ==
  /\ where = "open"
  /\ (Open(hello) /\ where' = "colour") \/ (UNCHANGED vars /\ where' = "ended")
  /\ UNCHANGED <<ball, fails>>

(* set_background_color, which may fail as a whole.                        *)
ColourCall ==
  /\ where = "colour" /\ at[hello] = "idle"
  /\ \/ VGA_BALL_WRITE_BACKGROUND(hello, <<0, 0, 64>>) /\ UNCHANGED where
     \/ UNCHANGED vars /\ where' = "pos"
  /\ UNCHANGED <<ball, fails>>

(* set_ball_pos takes unsigned shorts.                                     *)
PosCall ==
  /\ where = "pos" /\ at[hello] = "idle"
  /\ VGA_BALL_SET_POS(hello, <<x % 2^16, y % 2^16>>)
  /\ UNCHANGED <<where, ball, fails>>

PosFails ==
  /\ where = "pos" /\ at[hello] = "idle" /\ fails < MaxFails
  /\ where' = "move" /\ fails' = fails + 1 /\ UNCHANGED <<vars, ball>>

(* The driver works on the call; main goes on when it returns.             *)
InCall ==
  /\ where \in {"colour", "pos"} /\ Write(hello)
  /\ where' = IF at'[hello] # "idle" THEN where
              ELSE IF where = "colour" THEN "pos" ELSE "move"
  /\ fails' = IF at[hello] = "y" THEN 0 ELSE fails
  /\ UNCHANGED ball

MoveOn ==
  /\ where = "move" /\ Advance
  /\ where' = IF i + 1 < 10000 THEN "pos" ELSE "ended"
  /\ UNCHANGED vars

(* The file is closed with the process.                                    *)
Exit ==
  /\ where = "ended"
  /\ IF hello \in open THEN Close(hello) ELSE UNCHANGED vars
  /\ UNCHANGED <<where, ball, fails>>

DrivenNext ==
  OpenCall \/ ColourCall \/ PosCall \/ PosFails \/ InCall \/ MoveOn \/ Exit

DrivenSpec == DrivenInit /\ [][DrivenNext]_dvars

-----------------------------------------------------------------------------
Others == where = "absent" /\ Next /\ UNCHANGED <<where, ball, fails>>

UseInit == DrivenInit \/ (Init /\ where = "absent" /\ Start)

UseSpec == UseInit /\ [][Others \/ DrivenNext]_dvars

-----------------------------------------------------------------------------
(* Two writes in this order, or none, are all that the registers see of a  *)
(* call of set_ball_pos through vga_ball.c, and one or none of             *)
(* set_background_color: each step on the driver is one of Hello.          *)
ImplementsHello == [][where # "absent" => [prog!Next]_(prog!vars)]_dvars

(* On the driver too, the ball is where the program wants it after a call  *)
(* that works, but for the edges.                                          *)
Follows == prog!Follows

(* On the driver too, the ball is thrown back at each edge once and is     *)
(* never stuck, for all the turns of the loop of hello.c.                  *)
Bounces == prog!Bounces

(* On the driver too, the ball on the screen moves smoothly: two pixels a  *)
(* turn, and two more for each call that has failed.                       *)
MovesSmoothly == [][prog!StaysClose]_(prog!vars)
=============================================================================
