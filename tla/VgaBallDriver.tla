--------------------------- MODULE VgaBallDriver ---------------------------
(***************************************************************************)
(* The driver lab3/lab3-sw/vga_ball.c between the processes that have      *)
(* /dev/vga_ball open and the registers of the circuit: loading and        *)
(* removing the module, and ioctl calls of several processes at once.      *)
(* There is no lock: one step is one access to a register, or one access   *)
(* to dev of the compiled module (vga_ball.o stores a colour as a halfword *)
(* and a byte, and loads it as one word).                                  *)
(***************************************************************************)
EXTENDS BallRegisters

CONSTANTS
  Procs,                \* the processes
  Colours, Positions    \* what they ask for

Triples == (0 .. 255) \X (0 .. 255) \X (0 .. 255)

ASSUME RequestsAssumption == Colours \subseteq Triples /\ Positions \subseteq Nat \X Nat

VARIABLES
  dev,                  \* the driver's copies: background, ball_x, ball_y
  misc,                 \* /dev/vga_ball is registered
  region, mapped,       \* the address range is ours; dev.virtbase is mapped
  module, going,        \* where loading and removing stand; rmmod has begun
  open,                 \* the processes that have /dev/vga_ball open
  at, arg,              \* where each one's ioctl stands, and its vla
  early,                \* history: who opened it before the probe was over
  mixed                 \* history: what overlapping calls have set since it
                        \* was last set by a call alone

device == <<registers, dev>>
user == <<open, at, arg, early, mixed>>
vars == <<device, misc, region, mapped, module, going, user>>

beige == <<249, 228, 183>>

Zero == [background |-> <<0, 0, 0>>, ball_x |-> 0, ball_y |-> 0]

Init ==
  /\ RegistersReset
  /\ dev = Zero
  /\ misc = FALSE /\ region = FALSE /\ mapped = FALSE
  /\ module = "out" /\ going = FALSE
  /\ open = {} /\ at = [p \in Procs |-> "idle"] /\ arg = [p \in Procs |-> <<>>]
  /\ early = {} /\ mixed = {}

-----------------------------------------------------------------------------
(* A bug to be caught: green and blue change places.                       *)
WordSwapped(c) == c[1] * 2^16 + c[3] * 256 + c[2]

Word(c) == c[1] * 2^16 + c[2] * 256 + c[3]

(* write_background(c) and write_ball_pos(q[1], q[2]): the step at pc.     *)
write_background(c, pc) ==
  \/ pc = "background" /\ BusWrite(0, Word(c)) /\ UNCHANGED dev
  \/ /\ pc = "redgreen" /\ UNCHANGED registers
     /\ dev' = [dev EXCEPT !.background = <<c[1], c[2], @[3]>>]
  \/ /\ pc = "blue" /\ UNCHANGED registers
     /\ dev' = [dev EXCEPT !.background = <<@[1], @[2], c[3]>>]

(* A bug to be caught: a copy is kept of the first coordinate only.        *)
write_ball_pos_Short(q, pc) ==
  \/ pc = "x" /\ BusWrite(1, q[1]) /\ UNCHANGED dev
  \/ pc = "y" /\ BusWrite(2, q[2]) /\ UNCHANGED dev
  \/ pc = "copy_x" /\ dev' = [dev EXCEPT !.ball_x = q[1]] /\ UNCHANGED registers
  \/ pc = "copy_y" /\ UNCHANGED device

(* A bug to be caught: the first coordinate is sent twice.                 *)
write_ball_pos_Twice(q, pc) ==
  \/ pc = "x" /\ BusWrite(1, q[1]) /\ UNCHANGED dev
  \/ pc = "y" /\ BusWrite(2, q[1]) /\ UNCHANGED dev
  \/ pc = "copy_x" /\ dev' = [dev EXCEPT !.ball_x = q[1]] /\ UNCHANGED registers
  \/ pc = "copy_y" /\ dev' = [dev EXCEPT !.ball_y = q[2]] /\ UNCHANGED registers

(* A bug to be caught: the second coordinate is sent first.                *)
write_ball_pos_YFirst(q, pc) ==
  \/ pc = "x" /\ BusWrite(2, q[2]) /\ UNCHANGED dev
  \/ pc = "y" /\ BusWrite(1, q[1]) /\ UNCHANGED dev
  \/ pc = "copy_x" /\ dev' = [dev EXCEPT !.ball_x = q[1]] /\ UNCHANGED registers
  \/ pc = "copy_y" /\ dev' = [dev EXCEPT !.ball_y = q[2]] /\ UNCHANGED registers

write_ball_pos(q, pc) ==
  \/ pc = "x" /\ BusWrite(1, q[1]) /\ UNCHANGED dev
  \/ pc = "y" /\ BusWrite(2, q[2]) /\ UNCHANGED dev
  \/ pc = "copy_x" /\ dev' = [dev EXCEPT !.ball_x = q[1]] /\ UNCHANGED registers
  \/ pc = "copy_y" /\ dev' = [dev EXCEPT !.ball_y = q[2]] /\ UNCHANGED registers

After ==
  [background |-> "redgreen", redgreen |-> "blue", blue |-> "end",
   x |-> "y", y |-> "copy_x", copy_x |-> "copy_y", copy_y |-> "end"]

Touches == {"background", "x", "y"}     \* the steps that use dev.virtbase

-----------------------------------------------------------------------------
(* Loading: one action for each call of vga_ball_probe.                    *)
Load ==
  /\ module = "out" /\ module' = "misc_register" /\ dev' = Zero
  /\ UNCHANGED <<registers, misc, region, mapped, going, user>>

(* What misc_register returns is overwritten at once.                      *)
Register ==
  /\ module = "misc_register" /\ misc' \in BOOLEAN /\ module' = "resource"
  /\ UNCHANGED <<device, region, mapped, going, user>>

Resource ==
  /\ module = "resource" /\ module' \in {"request", "deregister"}
  /\ UNCHANGED <<device, misc, region, mapped, going, user>>

Request ==
  /\ module = "request" /\ region' \in BOOLEAN
  /\ module' = IF region' THEN "iomap" ELSE "deregister"
  /\ UNCHANGED <<device, misc, mapped, going, user>>

(* A bug to be caught: the other label.                                    *)
IomapKeepsRegion ==
  /\ module = "iomap" /\ mapped' \in BOOLEAN
  /\ module' = IF mapped' THEN "background" ELSE "deregister"
  /\ UNCHANGED <<device, misc, region, going, user>>

Iomap ==
  /\ module = "iomap" /\ mapped' \in BOOLEAN
  /\ module' = IF mapped' THEN "background" ELSE "release"
  /\ UNCHANGED <<device, misc, region, going, user>>

Initialize ==
  /\ write_background(beige, module) \/ write_ball_pos(<<320, 240>>, module)
  /\ module' = IF module = "blue" THEN "x"
               ELSE IF module = "copy_y" THEN "loaded" ELSE After[module]
  /\ UNCHANGED <<misc, region, mapped, going, user>>

(* The kernel takes a module out when no file of its is open, and lets     *)
(* none be opened from then on; vga_ball_remove follows.                   *)
Rmmod ==
  /\ module = "loaded" /\ open = {} /\ module' = "iounmap" /\ going' = TRUE
  /\ UNCHANGED <<device, misc, region, mapped, user>>

Iounmap ==
  /\ module = "iounmap" /\ mapped' = FALSE /\ module' = "release"
  /\ UNCHANGED <<device, misc, region, going, user>>

Release ==
  /\ module = "release" /\ region' = FALSE /\ module' = "deregister"
  /\ UNCHANGED <<device, misc, mapped, going, user>>

Deregister ==
  /\ module = "deregister" /\ misc' = FALSE /\ module' = "out" /\ going' = FALSE
  /\ UNCHANGED <<device, region, mapped, user>>

-----------------------------------------------------------------------------
(* A bug to be caught: without .owner the kernel does not count the open   *)
(* files of the module, so that one can be opened while it goes.           *)
OpenUncounted(p) ==
  /\ misc /\ p \notin open /\ open' = open \cup {p}
  /\ early' = IF module = "loaded" \/ going THEN early ELSE early \cup {p}
  /\ UNCHANGED <<device, misc, region, mapped, module, going, at, arg, mixed>>

(* The device can be opened once it is registered, before the probe ends.  *)
Open(p) ==
  /\ misc /\ ~going /\ p \notin open /\ open' = open \cup {p}
  /\ early' = IF module = "loaded" THEN early ELSE early \cup {p}
  /\ UNCHANGED <<device, misc, region, mapped, module, going, at, arg, mixed>>

Close(p) ==
  /\ p \in open /\ at[p] = "idle"
  /\ open' = open \ {p} /\ early' = early \ {p}
  /\ UNCHANGED <<device, misc, region, mapped, module, going, at, arg, mixed>>

(* vga_ball_ioctl, a command each; a call with an unknown command or a bad *)
(* pointer returns an error and changes nothing.                           *)
Ioctl(p, step, v) ==
  /\ p \in open /\ at[p] = "idle"
  /\ at' = [at EXCEPT ![p] = step] /\ arg' = [arg EXCEPT ![p] = v]
  /\ UNCHANGED <<device, misc, region, mapped, module, going, open, early>>

ColourSteps == {"background", "redgreen", "blue"}
PositionSteps == {"x", "y", "copy_x", "copy_y"}

(* The probe, or another call at one of these steps, is at work.           *)
Busy(S) == module # "loaded" \/ \E p \in Procs : at[p] \in S

VGA_BALL_WRITE_BACKGROUND(p, c) ==
  /\ Ioctl(p, "background", c)
  /\ mixed' = IF Busy(ColourSteps \cup {"read", "got"}) THEN mixed \cup {"colour"}
              ELSE mixed \ {"colour"}

VGA_BALL_SET_POS(p, q) ==
  /\ Ioctl(p, "x", q)
  /\ mixed' = IF Busy(PositionSteps) THEN mixed \cup {"position"}
              ELSE mixed \ {"position"}

VGA_BALL_READ_BACKGROUND(p) ==
  /\ Ioctl(p, "read", <<>>)
  /\ mixed' = IF Busy(ColourSteps) THEN mixed \cup {"colour"} ELSE mixed

Return(p) == at' = [at EXCEPT ![p] = "idle"] /\ arg' = [arg EXCEPT ![p] = <<>>]

Write(p) ==
  /\ at[p] \in Touches => mapped
  /\ write_background(arg[p], at[p]) \/ write_ball_pos(arg[p], at[p])
  /\ IF After[at[p]] = "end" THEN Return(p)
     ELSE at' = [at EXCEPT ![p] = After[at[p]]] /\ UNCHANGED arg
  /\ UNCHANGED <<misc, region, mapped, module, going, open, early, mixed>>

Read(p) ==
  /\ at[p] = "read" /\ at' = [at EXCEPT ![p] = "got"]
  /\ arg' = [arg EXCEPT ![p] = dev.background]
  /\ UNCHANGED <<device, misc, region, mapped, module, going, open, early, mixed>>

Got(p) ==
  /\ at[p] = "got" /\ Return(p)
  /\ UNCHANGED <<device, misc, region, mapped, module, going, open, early, mixed>>

(* There is nothing at dev.virtbase: the kernel ends the process.          *)
Oops(p) ==
  /\ at[p] \in Touches /\ ~mapped /\ Return(p)
  /\ open' = open \ {p} /\ early' = early \ {p}
  /\ UNCHANGED <<device, misc, region, mapped, module, going, mixed>>

Next ==
  \/ Load \/ Register \/ Resource \/ Request \/ Iomap \/ Initialize
  \/ Rmmod \/ Iounmap \/ Release \/ Deregister
  \/ \E p \in Procs : \/ Open(p) \/ Close(p)
                      \/ \E c \in Colours : VGA_BALL_WRITE_BACKGROUND(p, c)
                      \/ \E q \in Positions : VGA_BALL_SET_POS(p, q)
                      \/ VGA_BALL_READ_BACKGROUND(p)
                      \/ Write(p) \/ Read(p) \/ Got(p) \/ Oops(p)

Spec == Init /\ [][Next]_vars

-----------------------------------------------------------------------------
Steps == DOMAIN After

DriverTypeOK ==
  /\ RegistersTypeOK
  /\ dev \in [background : Triples, ball_x : Nat, ball_y : Nat]
  /\ misc \in BOOLEAN /\ region \in BOOLEAN /\ mapped \in BOOLEAN
  /\ module \in Steps \cup {"out", "misc_register", "resource", "request", "iomap",
                           "loaded", "iounmap", "release", "deregister"}
  /\ going \in BOOLEAN /\ mixed \subseteq {"colour", "position"}
  /\ open \subseteq Procs /\ early \subseteq open
  /\ at \in [Procs -> Steps \cup {"idle", "read", "got"}]
  /\ arg \in [Procs -> Triples \cup (Nat \X Nat) \cup {<<>>}]

(* Whatever step of the probe fails, and after a removal, the driver has   *)
(* given back all it took: vga_ball.c:166-170 and 174-180.                 *)
NothingLeft == module = "out" => ~misc /\ ~region /\ ~mapped

(* Once it has been loaded, no call of the driver reaches for registers    *)
(* that are not mapped, however calls, closes and rmmod interleave.  Only  *)
(* a process that opened the device during the probe can: misc_register    *)
(* comes first in vga_ball_probe, of_iomap last.                           *)
UsesMapped == \A p \in Procs \ early : at[p] \in Touches => mapped

(* The background on the screen is a colour somebody asked for, never a    *)
(* mixture of two: it is written in one word, whoever writes at once.      *)
ShownWhole == background \in Colours \cup {beige, ResetColour}

(* The copies are what the circuit shows, and VGA_BALL_READ_BACKGROUND     *)
(* returns the colour on the screen, unless calls for the same thing have  *)
(* overlapped; and after they have, the next call that is alone with it    *)
(* puts it right, whoever makes it and whatever is done with the other     *)
(* thing meanwhile.  The copy of a coordinate that is off the screen is    *)
(* all that may differ: the circuit ignores such a write.                  *)
CopiesAgree ==
  /\ "colour" \notin mixed => \A p \in Procs : at[p] = "got" => arg[p] = background
  /\ module \in {"loaded", "iounmap"} =>
       /\ "colour" \notin mixed /\ (\A p \in Procs : at[p] \notin ColourSteps) =>
            dev.background = background
       /\ "position" \notin mixed /\ (\A p \in Procs : at[p] \notin PositionSteps) =>
            /\ dev.ball_x = ball_x \/ dev.ball_x > 639
            /\ dev.ball_y = ball_y \/ dev.ball_y > 479
=============================================================================
