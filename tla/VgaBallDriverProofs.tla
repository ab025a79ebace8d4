------------------------ MODULE VgaBallDriverProofs ------------------------
(***************************************************************************)
(* Proofs about VgaBallDriver, for any processes and any requests, and     *)
(* about HelloOnDriver.                                                    *)
(***************************************************************************)
EXTENDS HelloOnDriver, TLAPS

(* BusWrite (vga_ball.sv, the case over address) leaves the registers in   *)
(* their ranges, whatever is written to whichever address.                 *)
LEMMA BusWriteType ==
  ASSUME RegistersTypeOK, NEW address \in Nat, NEW writedata \in Nat,
         BusWrite(address, writedata)
  PROVE  RegistersTypeOK'
<1>1. writedata % 2^16 \in Nat
  OBVIOUS
<1>2. ball_x' = IF address = 1 /\ writedata % 2^16 <= 639
                THEN writedata % 2^16 ELSE ball_x
  BY Zenon DEF BusWrite, InRange
<1>3. ball_y' = IF address = 2 /\ writedata % 2^16 <= 479
                THEN writedata % 2^16 ELSE ball_y
  BY Zenon DEF BusWrite, InRange
<1>4. /\ (writedata \div 2^16) % 256 \in 0 .. 255
      /\ (writedata \div 256) % 256 \in 0 .. 255
      /\ writedata % 256 \in 0 .. 255
  OBVIOUS
<1>5. background' \in (0 .. 255) \X (0 .. 255) \X (0 .. 255)
  BY <1>4 DEF BusWrite, RegistersTypeOK
<1>6. ball_x' \in 0 .. 639
  BY <1>1, <1>2 DEF RegistersTypeOK
<1>7. ball_y' \in 0 .. 479
  BY <1>1, <1>3 DEF RegistersTypeOK
<1> QED
  BY <1>5, <1>6, <1>7 DEF RegistersTypeOK

(* The reset values of vga_ball.sv are in the ranges.                      *)
LEMMA ResetType == /\ RegistersReset => RegistersTypeOK
                   /\ ToReset => RegistersTypeOK'
BY DEF RegistersReset, ToReset, RegistersTypeOK, ResetColour

(* A write to an address touches the register of this address only.        *)
LEMMA BusWriteOther ==
  ASSUME NEW address, NEW writedata, BusWrite(address, writedata)
  PROVE  /\ address # 0 => background' = background
         /\ address # 1 => ball_x' = ball_x
         /\ address # 2 => ball_y' = ball_y
BY DEF BusWrite

-----------------------------------------------------------------------------
(* The writes and assignments of the two ioctls.                           *)
LEMMA StepsAre ==
  Steps = {"background", "redgreen", "blue", "x", "y", "copy_x", "copy_y"}
BY DEF Steps, After

(* Their order in each of the two functions.                               *)
LEMMA AfterIs ==
  /\ After["background"] = "redgreen" /\ After["redgreen"] = "blue"
  /\ After["blue"] = "end" /\ After["x"] = "y" /\ After["y"] = "copy_x"
  /\ After["copy_x"] = "copy_y" /\ After["copy_y"] = "end"
BY DEF After

(* The parts of a colour are bytes.                                        *)
LEMMA TripleIs ==
  ASSUME NEW c \in Triples
  PROVE  /\ c = <<c[1], c[2], c[3]>>
         /\ c[1] \in Int /\ 0 <= c[1] /\ c[1] <= 255
         /\ c[2] \in Int /\ 0 <= c[2] /\ c[2] <= 255
         /\ c[3] \in Int /\ 0 <= c[3] /\ c[3] <= 255
BY DEF Triples

(* Three bytes are a colour.                                               *)
LEMMA TripleMade ==
  ASSUME NEW r \in 0 .. 255, NEW g \in 0 .. 255, NEW b \in 0 .. 255
  PROVE  <<r, g, b>> \in Triples
BY DEF Triples

(* Registers that nobody writes stay in their ranges.                      *)
LEMMA RegistersKept ==
  ASSUME RegistersTypeOK, UNCHANGED registers
  PROVE  RegistersTypeOK'
BY DEF RegistersTypeOK, registers

(* The word write_background puts together is taken apart again by the     *)
(* circuit.                                                                *)
LEMMA WordWhole ==
  ASSUME NEW c \in Triples
  PROVE  Word(c) \in Nat /\ (BusWrite(0, Word(c)) => background' = c)
<1> DEFINE r == c[1]
           g == c[2]
           b == c[3]
           w == r * 2^16 + g * 256 + b
<1>2. r \in Int /\ 0 <= r /\ r <= 255 /\ g \in Int /\ 0 <= g /\ g <= 255
      /\ b \in Int /\ 0 <= b /\ b <= 255 /\ c = <<r, g, b>>
  BY TripleIs
<1>3. Word(c) = w
  BY DEF Word
<1> HIDE DEF r, g, b
<1>4. w \in Nat /\ w % 256 = b
  BY <1>2, SMT
<1>5. w \div 256 = r * 256 + g
  BY <1>2, SMT
<1>6. (r * 256 + g) % 256 = g
  BY <1>2, SMT
<1>7. w \div 2^16 = r
  BY <1>2, SMT
<1>8. r % 256 = r
  BY <1>2, SMT
<1> HIDE DEF w
<1>10. BusWrite(0, w) => background' = <<r, g, b>>
  BY <1>4, <1>5, <1>6, <1>7, <1>8 DEF BusWrite
<1> QED
  BY <1>2, <1>3, <1>4, <1>10

-----------------------------------------------------------------------------
(* A step of one of the two writers keeps the types of registers and dev.  *)
LEMMA WriterType ==
  ASSUME RegistersTypeOK, dev \in [background : Triples, ball_x : Nat, ball_y : Nat],
         NEW c, NEW pc,
         \/ c \in Triples /\ write_background(c, pc)
         \/ c \in Nat \X Nat /\ write_ball_pos(c, pc)
  PROVE  RegistersTypeOK' /\ dev' \in [background : Triples, ball_x : Nat, ball_y : Nat]
<1>1. CASE UNCHANGED registers
  <2>1. RegistersTypeOK'
    BY <1>1, RegistersKept
  <2>2. CASE c \in Triples /\ write_background(c, pc)
    <3>1. c[1] \in 0 .. 255 /\ c[2] \in 0 .. 255 /\ c[3] \in 0 .. 255
      BY <2>2, TripleIs
    <3>2. /\ dev.background[1] \in 0 .. 255 /\ dev.background[2] \in 0 .. 255
          /\ dev.background[3] \in 0 .. 255
      BY TripleIs
    <3>3. CASE UNCHANGED dev
      BY <2>1, <3>3
    <3>4. /\ <<c[1], c[2], dev.background[3]>> \in Triples
          /\ <<dev.background[1], dev.background[2], c[3]>> \in Triples
      BY <3>1, <3>2, TripleMade, Zenon
    <3>5. CASE \E t \in Triples : dev' = [dev EXCEPT !.background = t]
      BY <2>1, <3>5
    <3> QED
      BY <2>2, <3>3, <3>4, <3>5 DEF write_background
  <2>3. CASE c \in Nat \X Nat /\ write_ball_pos(c, pc)
    <3>1. c[1] \in Nat /\ c[2] \in Nat
      BY <2>3
    <3>2. \/ dev' = dev \/ dev' = [dev EXCEPT !.ball_x = c[1]]
          \/ dev' = [dev EXCEPT !.ball_y = c[2]]
      BY <2>3 DEF write_ball_pos
    <3> QED
      BY <2>1, <3>1, <3>2
  <2> QED
    BY <2>2, <2>3
<1>2. CASE dev' = dev /\ c \in Triples /\ BusWrite(0, Word(c))
  BY <1>2, WordWhole, BusWriteType
<1>3. CASE dev' = dev /\ c \in Nat \X Nat /\ (BusWrite(1, c[1]) \/ BusWrite(2, c[2]))
  BY <1>3, BusWriteType
<1> QED
  BY <1>1, <1>2, <1>3 DEF write_background, write_ball_pos

-----------------------------------------------------------------------------
(* An ioctl has the kind of argument its function needs.                   *)
Asked ==
  \A p \in Procs : /\ at[p] \in ColourSteps => arg[p] \in Triples
                   /\ at[p] \in PositionSteps => arg[p] \in Nat \X Nat

(* A step belongs to one of the two functions.                             *)
LEMMA StepsSplit == Steps = ColourSteps \cup PositionSteps
BY StepsAre DEF ColourSteps, PositionSteps

(* A process is in the function its argument is for.                       *)
LEMMA WriteIs ==
  ASSUME Asked, NEW p \in Procs, Write(p)
  PROVE  \/ /\ at[p] \in ColourSteps /\ arg[p] \in Triples
            /\ write_background(arg[p], at[p])
         \/ /\ at[p] \in PositionSteps /\ arg[p] \in Nat \X Nat
            /\ write_ball_pos(arg[p], at[p])
<1>1. CASE write_background(arg[p], at[p])
  <2>1. at[p] \in ColourSteps
    BY <1>1 DEF write_background, ColourSteps
  <2> QED
    BY <1>1, <2>1 DEF Asked
<1>2. CASE write_ball_pos(arg[p], at[p])
  <2>1. at[p] \in PositionSteps
    BY <1>2 DEF write_ball_pos, PositionSteps
  <2> QED
    BY <1>2, <2>1 DEF Asked
<1> QED
  BY <1>1, <1>2 DEF Write

Devices == [background : Triples, ball_x : Nat, ball_y : Nat]

(* The initial colour and position of the driver have their types.         *)
LEMMA Constants == /\ beige \in Triples /\ Zero \in Devices
                   /\ <<320, 240>> \in Nat \X Nat
BY DEF beige, Zero, Triples, Devices

(* What a step of an ioctl leaves of at and arg.                           *)
LEMMA WriteNext ==
  ASSUME DriverTypeOK, Asked, NEW p \in Procs, Write(p)
  PROVE  /\ at' \in [Procs -> Steps \cup {"idle", "read", "got"}]
         /\ arg' \in [Procs -> Triples \cup (Nat \X Nat) \cup {<<>>}]
         /\ Asked'
<1>1. at[p] \in Steps
  BY WriteIs, StepsSplit
<1>2. CASE After[at[p]] = "end"
  <2>1. Return(p)
    BY <1>2 DEF Write
  <2> QED
    BY <2>1 DEF Return, DriverTypeOK, Asked, ColourSteps, PositionSteps
<1>3. CASE After[at[p]] # "end"
  <2>1. at' = [at EXCEPT ![p] = After[at[p]]] /\ arg' = arg
    BY <1>3 DEF Write
  <2>2. /\ After[at[p]] \in Steps
        /\ at[p] \in ColourSteps <=> After[at[p]] \in ColourSteps
        /\ at[p] \in PositionSteps <=> After[at[p]] \in PositionSteps
    BY <1>1, <1>3, StepsAre, AfterIs DEF ColourSteps, PositionSteps
  <2> QED
    BY <2>1, <2>2 DEF DriverTypeOK, Asked
<1> QED
  BY <1>2, <1>3

(* Calls of the processes leave the driver's own state alone.              *)
LEMMA UserType ==
  ASSUME DriverTypeOK, UNCHANGED <<device, misc, region, mapped, module, going>>,
         open' \subseteq Procs, early' \subseteq open', mixed' \subseteq {"colour", "position"},
         at' \in [Procs -> Steps \cup {"idle", "read", "got"}],
         arg' \in [Procs -> Triples \cup (Nat \X Nat) \cup {<<>>}]
  PROVE  DriverTypeOK'
<1>1. RegistersTypeOK'
  BY RegistersKept DEF DriverTypeOK, device
<1> QED
  BY <1>1 DEF DriverTypeOK, device

(* A call with any colour or position, not only those of the constants.    *)
Calls(p) ==
  \/ \E c \in Triples : VGA_BALL_WRITE_BACKGROUND(p, c)
  \/ \E q \in Nat \X Nat : VGA_BALL_SET_POS(p, q)
  \/ VGA_BALL_READ_BACKGROUND(p)

(* The calls of Next are such calls.                                       *)
LEMMA NextCalls ==
  ASSUME NEW p \in Procs,
         \/ \E c \in Colours : VGA_BALL_WRITE_BACKGROUND(p, c)
         \/ \E q \in Positions : VGA_BALL_SET_POS(p, q)
         \/ VGA_BALL_READ_BACKGROUND(p)
  PROVE  Calls(p)
BY RequestsAssumption, Zenon DEF Calls

(* What the beginning of a call changes.                                   *)
LEMMA CallIs ==
  ASSUME NEW p \in Procs, Calls(p)
  PROVE  /\ p \in open /\ at[p] = "idle"
         /\ UNCHANGED <<device, misc, region, mapped, module, going, open, early>>
         /\ mixed' \subseteq mixed \cup {"colour", "position"}
         /\ \E s, v : /\ \/ s = "background" /\ v \in Triples
                         \/ s = "x" /\ v \in Nat \X Nat
                         \/ s = "read" /\ v = <<>>
                      /\ at' = [at EXCEPT ![p] = s] /\ arg' = [arg EXCEPT ![p] = v]
<1>1. CASE \E c \in Triples : VGA_BALL_WRITE_BACKGROUND(p, c)
  BY <1>1 DEF VGA_BALL_WRITE_BACKGROUND, Ioctl
<1>2. CASE \E q \in Nat \X Nat : VGA_BALL_SET_POS(p, q)
  BY <1>2 DEF VGA_BALL_SET_POS, Ioctl
<1>3. CASE VGA_BALL_READ_BACKGROUND(p)
  BY <1>3 DEF VGA_BALL_READ_BACKGROUND, Ioctl
<1> QED
  BY <1>1, <1>2, <1>3 DEF Calls

(* Types, and that arguments are of the right kind, are kept.              *)
LEMMA TypeStep ==
  ASSUME DriverTypeOK, Asked, [Next]_vars \/ \E p \in Procs : Calls(p)
  PROVE  DriverTypeOK' /\ Asked'
<1> USE DEF user, device
<1>1. CASE \/ Load \/ Register \/ Resource \/ Request \/ Iomap
           \/ Rmmod \/ Iounmap \/ Release \/ Deregister
  <2>1. /\ UNCHANGED <<registers, user>> /\ dev' \in Devices
    BY <1>1, Constants
       DEF DriverTypeOK, Devices, Load, Register, Resource, Request, Iomap,
           Rmmod, Iounmap, Release, Deregister
  <2>2. UNCHANGED <<open, at, arg, early, mixed>> /\ RegistersTypeOK' /\ Asked'
    BY <2>1, RegistersKept DEF Asked, DriverTypeOK
  <2>3. CASE Load \/ Register \/ Resource \/ Request
    BY <2>1, <2>2, <2>3 DEF DriverTypeOK, Devices, Load, Register, Resource, Request
  <2>4. CASE Iomap \/ Rmmod \/ Iounmap \/ Release \/ Deregister
    BY <2>1, <2>2, <2>4, StepsAre
       DEF DriverTypeOK, Devices, Iomap, Rmmod, Iounmap, Release, Deregister
  <2> QED
    BY <1>1, <2>3, <2>4
<1>2. CASE Initialize
  <2>1. UNCHANGED <<misc, region, mapped, going, user>> /\ Asked'
    BY <1>2 DEF Initialize, Asked
  <2>2. RegistersTypeOK' /\ dev' \in Devices
    BY <1>2, WriterType, Constants DEF Initialize, DriverTypeOK, Devices
  <2>3. module \in Steps
    BY <1>2, StepsAre DEF Initialize, write_background, write_ball_pos
  <2>4. module' \in Steps \cup {"loaded"}
    BY <1>2, <2>3, StepsAre, AfterIs DEF Initialize
  <2> QED
    BY <2>1, <2>2, <2>4 DEF DriverTypeOK, Devices
<1>3. ASSUME NEW p \in Procs, Write(p)
      PROVE  DriverTypeOK' /\ Asked'
  <2>1. RegistersTypeOK' /\ dev' \in Devices
    BY <1>3, WriteIs, WriterType DEF DriverTypeOK, Devices
  <2> QED
    BY <1>3, <2>1, WriteNext DEF Write, DriverTypeOK, Devices
<1>4. ASSUME NEW p \in Procs, Open(p) \/ Close(p)
      PROVE  DriverTypeOK' /\ Asked'
  <2>1. /\ UNCHANGED <<device, misc, region, mapped, module, going, at, arg, mixed>>
        /\ open' \subseteq Procs
    BY <1>4 DEF Open, Close, DriverTypeOK
  <2>2. early' \subseteq open'
    BY <1>4 DEF Open, Close, DriverTypeOK
  <2>3. DriverTypeOK'
    BY <2>1, <2>2, UserType DEF DriverTypeOK
  <2> QED
    BY <2>1, <2>3 DEF Asked
<1>5. ASSUME NEW p \in Procs, Calls(p)
      PROVE  DriverTypeOK' /\ Asked'
  <2>1. /\ UNCHANGED <<device, misc, region, mapped, module, going, open, early>>
        /\ mixed' \subseteq {"colour", "position"}
    BY <1>5, CallIs DEF DriverTypeOK
  <2>2. /\ at' \in [Procs -> Steps \cup {"idle", "read", "got"}]
        /\ arg' \in [Procs -> Triples \cup (Nat \X Nat) \cup {<<>>}]
    BY <1>5, CallIs, StepsAre DEF DriverTypeOK
  <2>3. Asked'
    BY <1>5, CallIs DEF DriverTypeOK, Asked, ColourSteps, PositionSteps
  <2>4. DriverTypeOK'
    BY <2>1, <2>2, UserType DEF DriverTypeOK
  <2> QED
    BY <2>3, <2>4
<1>6. ASSUME NEW p \in Procs, Read(p) \/ Got(p) \/ Oops(p)
      PROVE  DriverTypeOK' /\ Asked'
  <2>1. /\ UNCHANGED <<device, misc, region, mapped, module, going, mixed>>
        /\ open' \subseteq Procs
    BY <1>6 DEF Read, Got, Oops, DriverTypeOK
  <2>2. early' \subseteq open'
    BY <1>6 DEF Read, Got, Oops, DriverTypeOK
  <2>3. \E s \in {"idle", "got"}, a \in Triples \cup {<<>>} :
          at' = [at EXCEPT ![p] = s] /\ arg' = [arg EXCEPT ![p] = a]
    BY <1>6 DEF Read, Got, Oops, Return, DriverTypeOK
  <2>4. /\ at' \in [Procs -> Steps \cup {"idle", "read", "got"}]
        /\ arg' \in [Procs -> Triples \cup (Nat \X Nat) \cup {<<>>}]
    BY <2>3 DEF DriverTypeOK
  <2>5. Asked'
    BY <2>3 DEF DriverTypeOK, Asked, ColourSteps, PositionSteps
  <2>6. DriverTypeOK'
    BY <2>1, <2>2, <2>4, UserType DEF DriverTypeOK
  <2> QED
    BY <2>5, <2>6
<1>7. CASE UNCHANGED vars
  BY <1>7, UserType DEF vars, DriverTypeOK, Asked
<1> QED
  BY <1>1, <1>2, <1>3, <1>4, <1>5, <1>6, <1>7, NextCalls DEF Next

(* The machine starts with nothing loaded and nobody calling.              *)
LEMMA TypeInit == Init => DriverTypeOK /\ Asked
<1> SUFFICES ASSUME Init PROVE DriverTypeOK /\ Asked
  OBVIOUS
<1>1. at \in [Procs -> Steps \cup {"idle", "read", "got"}] /\ Asked
  BY DEF Init, Asked, ColourSteps, PositionSteps
<1>2. arg \in [Procs -> Triples \cup (Nat \X Nat) \cup {<<>>}]
  BY DEF Init
<1>3. RegistersTypeOK /\ dev \in Devices
  BY ResetType, Constants DEF Init
<1> QED
  BY <1>1, <1>2, <1>3 DEF Init, DriverTypeOK, Devices

(* All of the driver's state keeps its type, and an ioctl the kind of      *)
(* argument its function needs, whatever processes do at once:             *)
(* vga_ball.c:81-113.                                                      *)
THEOREM DriverTypeCorrect == Spec => [](DriverTypeOK /\ Asked)
BY TypeInit, TypeStep, PTL DEF Spec

-----------------------------------------------------------------------------
(* What the driver holds at each step, and why the steps that touch the    *)
(* registers find them mapped: a file opened after the probe keeps the     *)
(* module in.                                                              *)
Held ==
  /\ misc => module \notin {"out", "misc_register"}
  /\ region => module \in Steps \cup {"iomap", "loaded", "iounmap", "release"}
  /\ mapped => module \in Steps \cup {"loaded", "iounmap"}
  /\ module \in Steps \cup {"loaded"} => mapped
  /\ \A p \in Procs : at[p] # "idle" => p \in open
  /\ \A p \in open \ early : module = "loaded"

(* What the probe has taken is given back on every way out.                *)
LEMMA HeldStep ==
  ASSUME DriverTypeOK, Asked, Held, [Next]_vars
  PROVE  Held'
<1> USE DEF user
<1>1. CASE Load \/ Register \/ Resource \/ Request \/ Iomap
  BY <1>1, StepsAre DEF Load, Register, Resource, Request, Iomap, Held
<1>2. CASE Rmmod \/ Iounmap \/ Release \/ Deregister
  BY <1>2, StepsAre DEF Rmmod, Iounmap, Release, Deregister, Held
<1>3. CASE Initialize
  <2>1. module \in Steps
    BY <1>3, StepsAre DEF Initialize, write_background, write_ball_pos
  <2>2. module' \in Steps \cup {"loaded"}
    BY <1>3, <2>1, StepsAre, AfterIs DEF Initialize
  <2> QED
    BY <1>3, <2>1, <2>2, StepsAre DEF Initialize, Held
<1>4. ASSUME NEW p \in Procs, Write(p)
      PROVE  Held'
  <2>1. at[p] # "idle"
    BY <1>4, WriteIs DEF ColourSteps, PositionSteps
  <2> QED
    BY <1>4, <2>1 DEF Write, Return, Held, DriverTypeOK
<1>5. ASSUME NEW p \in Procs, Open(p) \/ Close(p)
      PROVE  Held'
  BY <1>5 DEF Open, Close, Held, DriverTypeOK
<1>8. ASSUME NEW p \in Procs, Calls(p)
      PROVE  Held'
  BY <1>8, CallIs DEF Held, DriverTypeOK
<1>6. ASSUME NEW p \in Procs, Read(p) \/ Got(p) \/ Oops(p)
      PROVE  Held'
  BY <1>6 DEF Read, Got, Oops, Return, Held, DriverTypeOK
<1>7. CASE UNCHANGED vars
  BY <1>7 DEF vars, Held
<1> QED
  BY <1>1, <1>2, <1>3, <1>4, <1>5, <1>6, <1>7, <1>8, NextCalls DEF Next

(* The driver holds what its state says at every time.                     *)
LEMMA HeldAlways == Spec => []Held
<1>1. Init => Held
  BY StepsAre DEF Init, Held
<1> QED
  BY <1>1, HeldStep, DriverTypeCorrect, PTL DEF Spec

(* Every path out of vga_ball_probe, and vga_ball_remove, gives back what  *)
(* was taken.                                                              *)
THEOREM NothingLeftCorrect == Spec => []NothingLeft
<1>1. Held => NothingLeft
  BY StepsAre DEF Held, NothingLeft
<1> QED
  BY <1>1, HeldAlways, PTL

(* However many processes there are, an ioctl on a file that was opened    *)
(* after vga_ball_probe finds the registers mapped.                        *)
THEOREM UsesMappedCorrect == Spec => []UsesMapped
<1>1. Held => UsesMapped
  BY DEF Held, UsesMapped, Touches
<1> QED
  BY <1>1, HeldAlways, PTL

-----------------------------------------------------------------------------
(* What the steps of write_background and of write_ball_pos change.        *)
LEMMA ColourEffect ==
  ASSUME NEW v \in Triples, NEW pc, dev \in Devices, write_background(v, pc)
  PROVE  /\ pc \in ColourSteps
         /\ ball_x' = ball_x /\ ball_y' = ball_y
         /\ dev'.ball_x = dev.ball_x /\ dev'.ball_y = dev.ball_y
         /\ pc = "background" => background' = v /\ dev' = dev
         /\ pc # "background" => background' = background
         /\ pc = "redgreen" => dev'.background[1] = v[1] /\ dev'.background[2] = v[2]
         /\ pc = "blue" => dev'.background = <<dev.background[1], dev.background[2], v[3]>>
<1>1. pc \in ColourSteps
  BY DEF write_background, ColourSteps
<1>2. CASE pc = "background"
  <2>1. BusWrite(0, Word(v)) /\ dev' = dev
    BY <1>2 DEF write_background
  <2>2. ball_x' = ball_x /\ ball_y' = ball_y
    BY <2>1, BusWriteOther
  <2>3. background' = v
    BY <2>1, WordWhole
  <2> QED
    BY <1>1, <1>2, <2>1, <2>2, <2>3
<1>3. CASE pc = "redgreen"
  BY <1>1, <1>3 DEF write_background, registers, Devices
<1>4. CASE pc = "blue"
  BY <1>1, <1>4 DEF write_background, registers, Devices
<1> QED
  BY <1>1, <1>2, <1>3, <1>4 DEF ColourSteps

(* A coordinate is stored unless it is off the screen.                     *)
LEMMA SetCoordinate ==
  ASSUME NEW n \in Nat
  PROVE  /\ BusWrite(1, n) => ball_x' = n \/ n > 639
         /\ BusWrite(2, n) => ball_y' = n \/ n > 479
<1>1. n <= 639 => n % 2^16 = n
  BY SMT
<1> QED
  BY <1>1 DEF BusWrite, InRange

(* What each step of write_ball_pos changes, and what it leaves.           *)
LEMMA PositionEffect ==
  ASSUME NEW v \in Nat \X Nat, NEW pc, dev \in Devices, write_ball_pos(v, pc)
  PROVE  /\ pc \in PositionSteps
         /\ background' = background /\ dev'.background = dev.background
         /\ pc # "x" => ball_x' = ball_x
         /\ pc # "y" => ball_y' = ball_y
         /\ pc # "copy_x" => dev'.ball_x = dev.ball_x
         /\ pc # "copy_y" => dev'.ball_y = dev.ball_y
         /\ pc = "x" => ball_x' = v[1] \/ v[1] > 639
         /\ pc = "y" => ball_y' = v[2] \/ v[2] > 479
         /\ pc = "copy_x" => dev'.ball_x = v[1]
         /\ pc = "copy_y" => dev'.ball_y = v[2]
<1>1. pc \in PositionSteps /\ v[1] \in Nat /\ v[2] \in Nat
  BY DEF write_ball_pos, PositionSteps
<1>2. CASE pc = "x"
  <2>1. BusWrite(1, v[1]) /\ dev' = dev
    BY <1>2 DEF write_ball_pos
  <2>2. background' = background /\ ball_y' = ball_y
    BY <2>1, BusWriteOther
  <2> QED
    BY <1>1, <1>2, <2>1, <2>2, SetCoordinate
<1>3. CASE pc = "y"
  <2>1. BusWrite(2, v[2]) /\ dev' = dev
    BY <1>3 DEF write_ball_pos
  <2>2. background' = background /\ ball_x' = ball_x
    BY <2>1, BusWriteOther
  <2> QED
    BY <1>1, <1>3, <2>1, <2>2, SetCoordinate
<1>4. CASE pc = "copy_x"
  BY <1>1, <1>4 DEF write_ball_pos, registers, Devices
<1>5. CASE pc = "copy_y"
  BY <1>1, <1>5 DEF write_ball_pos, registers, Devices
<1> QED
  BY <1>1, <1>2, <1>3, <1>4, <1>5 DEF PositionSteps

(* A process that sets the background has asked for one of the colours.    *)
Wanted == \A p \in Procs : at[p] \in ColourSteps => arg[p] \in Colours

(* A call keeps its colour to the end.                                     *)
LEMMA WantedStep ==
  ASSUME DriverTypeOK, Asked, Wanted, [Next]_vars
  PROVE  Wanted'
<1>1. CASE UNCHANGED <<at, arg>>
  BY <1>1 DEF Wanted
<1>2. ASSUME NEW p \in Procs, Write(p)
      PROVE  Wanted'
  <2>1. CASE After[at[p]] = "end"
    BY <1>2, <2>1 DEF Write, Return, DriverTypeOK, Wanted, ColourSteps
  <2>2. CASE After[at[p]] # "end"
    <3>1. at' = [at EXCEPT ![p] = After[at[p]]] /\ arg' = arg
      BY <1>2, <2>2 DEF Write
    <3>2. After[at[p]] \in ColourSteps => at[p] \in ColourSteps
      BY <1>2, WriteIs, StepsAre, AfterIs DEF ColourSteps, PositionSteps
    <3> QED
      BY <3>1, <3>2 DEF Wanted, DriverTypeOK
  <2> QED
    BY <2>1, <2>2
<1>3. ASSUME NEW p \in Procs, NEW c \in Colours, VGA_BALL_WRITE_BACKGROUND(p, c)
      PROVE  Wanted'
  BY <1>3 DEF VGA_BALL_WRITE_BACKGROUND, Ioctl, Wanted, DriverTypeOK
<1>4. ASSUME NEW p \in Procs, NEW s \in {"x", "read", "idle", "got"}, NEW v,
             at' = [at EXCEPT ![p] = s], arg' = [arg EXCEPT ![p] = v]
      PROVE  Wanted'
  BY <1>4 DEF Wanted, DriverTypeOK, ColourSteps
<1>5. ASSUME NEW p \in Procs,
             \/ \E q \in Positions : VGA_BALL_SET_POS(p, q)
             \/ VGA_BALL_READ_BACKGROUND(p)
      PROVE  Wanted'
  BY <1>4, <1>5 DEF VGA_BALL_SET_POS, VGA_BALL_READ_BACKGROUND, Ioctl
<1>6. ASSUME NEW p \in Procs, Read(p) \/ Got(p) \/ Oops(p)
      PROVE  Wanted'
  BY <1>4, <1>6 DEF Read, Got, Oops, Return
<1> QED
  BY <1>1, <1>2, <1>3, <1>5, <1>6
     DEF Next, vars, user, Load, Register, Resource, Request, Iomap, Initialize, Rmmod,
         Iounmap, Release, Deregister, Open, Close

(* Steps that leave the registers alone.                                   *)
LEMMA RegistersAlone ==
  ASSUME [Next]_vars
  PROVE  UNCHANGED registers \/ Initialize \/ \E p \in Procs : Write(p)
<1>1. ASSUME NEW p \in Procs, Calls(p)
      PROVE  UNCHANGED registers
  BY <1>1, CallIs DEF device
<1> QED
  BY <1>1, NextCalls
     DEF Next, vars, device, Load, Register, Resource, Request, Iomap, Rmmod,
         Iounmap, Release, Deregister, Open, Close, Read, Got, Oops

(* Only the driver's own colour and those of the callers reach the screen, *)
(* each in one word: vga_ball.c:58-61.                                     *)
THEOREM ShownWholeCorrect == Spec => []ShownWhole
<1>1. Init => ShownWhole /\ Wanted
  BY DEF Init, RegistersReset, ShownWhole, Wanted, ColourSteps
<1>2. ASSUME DriverTypeOK, Asked, Wanted, ShownWhole, [Next]_vars
      PROVE  ShownWhole'
  <2>1. CASE UNCHANGED registers
    BY <1>2, <2>1 DEF ShownWhole, registers
  <2>2. CASE Initialize
    BY <1>2, <2>2, ColourEffect, PositionEffect, Constants
       DEF Initialize, ShownWhole, DriverTypeOK, Devices
  <2>3. ASSUME NEW p \in Procs, Write(p)
        PROVE  ShownWhole'
    BY <1>2, <2>3, ColourEffect, PositionEffect, WriteIs
       DEF ShownWhole, Wanted, DriverTypeOK, Devices
  <2> QED
    BY <1>2, <2>1, <2>2, <2>3, RegistersAlone
<1> QED
  BY <1>1, <1>2, WantedStep, DriverTypeCorrect, PTL DEF Spec

-----------------------------------------------------------------------------
(* What the steps before pc have done, when nobody came between.           *)
ColourDone(pc, v) ==
  /\ pc \in {"redgreen", "blue"} => background = v
  /\ pc = "blue" => dev.background[1] = v[1] /\ dev.background[2] = v[2]

PositionDone(pc, v) ==
  /\ pc \in {"y", "copy_x", "copy_y"} => ball_x = v[1] \/ v[1] > 639
  /\ pc \in {"copy_x", "copy_y"} => ball_y = v[2] \/ v[2] > 479
  /\ pc = "copy_y" => dev.ball_x = v[1]

ColourAgrees == dev.background = background

PositionAgrees == /\ dev.ball_x = ball_x \/ dev.ball_x > 639
                  /\ dev.ball_y = ball_y \/ dev.ball_y > 479

ColourUsers == ColourSteps \cup {"read", "got"}

(* A writer of the colour is alone with it, and how far it has come.       *)
ColourGood ==
  /\ \A p \in Procs : at[p] \in ColourUsers => module = "loaded"
  /\ \A p, q \in Procs : at[p] \in ColourSteps /\ at[q] \in ColourUsers => q = p
  /\ \A p \in Procs : ColourDone(at[p], arg[p]) /\ (at[p] = "got" => arg[p] = background)
  /\ module \in ColourSteps => ColourDone(module, beige)
  /\ module \in PositionSteps \cup {"loaded", "iounmap"}
       /\ (\A p \in Procs : at[p] \notin ColourSteps) => ColourAgrees

(* The same for the position.                                              *)
PositionGood ==
  /\ \A p \in Procs : at[p] \in PositionSteps => module = "loaded"
  /\ \A p, q \in Procs : at[p] \in PositionSteps /\ at[q] \in PositionSteps => q = p
  /\ \A p \in Procs : PositionDone(at[p], arg[p])
  /\ module \in PositionSteps => PositionDone(module, <<320, 240>>)
  /\ module \in {"loaded", "iounmap"}
       /\ (\A p \in Procs : at[p] \notin PositionSteps) => PositionAgrees

(* After the last byte the register and the copy have the same colour.     *)
LEMMA LastByte ==
  ASSUME NEW v \in Triples, dev \in Devices, write_background(v, "blue"),
         ColourDone("blue", v)
  PROVE  ColourAgrees'
<1>1. /\ background' = background
      /\ dev'.background = <<dev.background[1], dev.background[2], v[3]>>
  BY ColourEffect
<1>2. background = v /\ dev.background[1] = v[1] /\ dev.background[2] = v[2]
  BY DEF ColourDone
<1>3. v = <<v[1], v[2], v[3]>>
  BY TripleIs
<1> QED
  BY <1>1, <1>2, <1>3 DEF ColourAgrees

(* Each step of write_background but the last prepares the next one.       *)
LEMMA ColourOn ==
  ASSUME NEW v \in Triples, NEW pc, dev \in Devices, write_background(v, pc),
         ColourDone(pc, v), pc # "blue"
  PROVE  After[pc] \in {"redgreen", "blue"} /\ ColourDone(After[pc], v)'
<1>1. pc = "background" \/ pc = "redgreen"
  BY DEF write_background
<1>2. CASE pc = "background"
  <2>1. background' = v /\ After[pc] = "redgreen"
    BY <1>2, ColourEffect, AfterIs
  <2> QED
    BY <2>1 DEF ColourDone
<1>3. CASE pc = "redgreen"
  <2>1. /\ background' = background /\ After[pc] = "blue" /\ background = v
        /\ dev'.background[1] = v[1] /\ dev'.background[2] = v[2]
    BY <1>3, ColourEffect, AfterIs DEF ColourDone
  <2> QED
    BY <2>1 DEF ColourDone
<1> QED
  BY <1>1, <1>2, <1>3

(* Each step of write_ball_pos but the last prepares the next one.         *)
LEMMA PositionOn ==
  ASSUME NEW v \in Nat \X Nat, NEW pc, dev \in Devices, write_ball_pos(v, pc),
         PositionDone(pc, v), pc # "copy_y"
  PROVE  After[pc] \in {"y", "copy_x", "copy_y"} /\ PositionDone(After[pc], v)'
<1>1. pc = "x" \/ pc = "y" \/ pc = "copy_x"
  BY DEF write_ball_pos
<1>2. CASE pc = "x"
  <2>1. (ball_x' = v[1] \/ v[1] > 639) /\ After[pc] = "y"
    BY <1>2, PositionEffect, AfterIs
  <2> QED
    BY <2>1 DEF PositionDone
<1>3. CASE pc = "y"
  <2>1. /\ ball_x' = v[1] \/ v[1] > 639
        /\ ball_y' = v[2] \/ v[2] > 479
        /\ After[pc] = "copy_x"
    BY <1>3, PositionEffect, AfterIs DEF PositionDone
  <2> QED
    BY <2>1 DEF PositionDone
<1>4. CASE pc = "copy_x"
  <2>1. /\ ball_x' = v[1] \/ v[1] > 639
        /\ ball_y' = v[2] \/ v[2] > 479
        /\ After[pc] = "copy_y" /\ dev'.ball_x = v[1]
    BY <1>4, PositionEffect, AfterIs DEF PositionDone
  <2> QED
    BY <2>1 DEF PositionDone
<1> QED
  BY <1>1, <1>2, <1>3, <1>4

(* After the last copy the registers and the copies agree.                 *)
LEMMA LastCopy ==
  ASSUME NEW v \in Nat \X Nat, dev \in Devices, write_ball_pos(v, "copy_y"),
         PositionDone("copy_y", v)
  PROVE  PositionAgrees'
<1>1. /\ ball_x' = ball_x /\ ball_y' = ball_y
      /\ dev'.ball_x = dev.ball_x /\ dev'.ball_y = v[2]
  BY PositionEffect
<1>2. /\ ball_x = v[1] \/ v[1] > 639
      /\ ball_y = v[2] \/ v[2] > 479
      /\ dev.ball_x = v[1]
  BY DEF PositionDone
<1> QED
  BY <1>1, <1>2 DEF PositionAgrees

(* Steps that leave the colour alone; a caller may come to use it or go,   *)
(* but not in the middle of write_background.                              *)
LEMMA ColourFrame ==
  ASSUME ColourGood, background' = background, dev'.background = dev.background,
         module' = module,
         \A q \in Procs : \/ at'[q] = at[q] /\ arg'[q] = arg[q]
                          \/ at[q] \notin ColourSteps /\ at'[q] \notin ColourUsers
  PROVE  ColourGood'
<1>1. \A q \in Procs : at'[q] \in ColourUsers => at'[q] = at[q] /\ arg'[q] = arg[q]
  OBVIOUS
<1>2. \A q \in Procs : ColourDone(at[q], arg[q])'
  BY <1>1 DEF ColourGood, ColourDone, ColourUsers, ColourSteps
<1>3. \A q \in Procs : at'[q] = "got" => arg'[q] = background'
  BY <1>1 DEF ColourGood, ColourUsers
<1>4. module' \in ColourSteps => ColourDone(module, beige)'
  BY DEF ColourGood, ColourDone
<1>5. (\A q \in Procs : at'[q] \notin ColourSteps) => \A q \in Procs : at[q] \notin ColourSteps
  BY DEF ColourUsers
<1>6. ColourAgrees => ColourAgrees'
  BY DEF ColourAgrees
<1>7. /\ \A p \in Procs : at'[p] \in ColourUsers => module' = "loaded"
      /\ \A p, q \in Procs : at'[p] \in ColourSteps /\ at'[q] \in ColourUsers => q = p
  BY <1>1 DEF ColourGood, ColourUsers
<1> QED
  BY <1>2, <1>3, <1>4, <1>5, <1>6, <1>7 DEF ColourGood

(* Steps that leave the position alone.                                    *)
LEMMA PositionFrame ==
  ASSUME PositionGood, ball_x' = ball_x, ball_y' = ball_y,
         dev'.ball_x = dev.ball_x, dev'.ball_y = dev.ball_y, module' = module,
         \A q \in Procs : \/ at'[q] = at[q] /\ arg'[q] = arg[q]
                          \/ at[q] \notin PositionSteps /\ at'[q] \notin PositionSteps
  PROVE  PositionGood'
<1>1. \A q \in Procs : at'[q] \in PositionSteps => at'[q] = at[q] /\ arg'[q] = arg[q]
  OBVIOUS
<1>2. \A q \in Procs : PositionDone(at[q], arg[q])'
  BY <1>1 DEF PositionGood, PositionDone, PositionSteps
<1>4. module' \in PositionSteps => PositionDone(module, <<320, 240>>)'
  BY DEF PositionGood, PositionDone
<1>5. (\A q \in Procs : at'[q] \notin PositionSteps)
        => \A q \in Procs : at[q] \notin PositionSteps
  OBVIOUS
<1>6. PositionAgrees => PositionAgrees'
  BY DEF PositionAgrees
<1>7. /\ \A p \in Procs : at'[p] \in PositionSteps => module' = "loaded"
      /\ \A p, q \in Procs : at'[p] \in PositionSteps /\ at'[q] \in PositionSteps => q = p
  BY <1>1 DEF PositionGood
<1> QED
  BY <1>2, <1>4, <1>5, <1>6, <1>7 DEF PositionGood

(* Loading and removing, but for the writes.                               *)
Modules ==
  \/ Load \/ Register \/ Resource \/ Request \/ Iomap
  \/ Rmmod \/ Iounmap \/ Release \/ Deregister

(* Nobody uses the device while it is loaded or removed, unless it is a    *)
(* call that has been counted as overlapping.                              *)
LEMMA ModulesIs ==
  ASSUME Held, Modules
  PROVE  /\ UNCHANGED <<registers, at, arg, mixed>>
         /\ \/ /\ module # "loaded"
               /\ module' \in {"misc_register", "resource", "request", "iomap",
                               "background", "release", "deregister", "out"}
            \/ /\ module = "loaded" /\ module' = "iounmap" /\ UNCHANGED dev
               /\ \A p \in Procs : at[p] = "idle"
BY DEF Modules, Load, Register, Resource, Request, Iomap, Rmmod, Iounmap, Release,
       Deregister, user, device, Held

(* Loading and removing leave no difference in the colour.                 *)
LEMMA ColourModules ==
  ASSUME Held, ColourGood, Modules
  PROVE  ColourGood'
<1>1. CASE module = "loaded"
  <2>1. /\ module' = "iounmap" /\ UNCHANGED <<registers, dev, at, arg>>
        /\ \A p \in Procs : at[p] = "idle" /\ at'[p] = "idle"
    BY <1>1, ModulesIs
  <2>2. ColourAgrees'
    BY <1>1, <2>1 DEF ColourGood, ColourAgrees, ColourSteps, registers
  <2> QED
    BY <2>1, <2>2 DEF ColourGood, ColourDone, ColourUsers, ColourSteps
<1>2. CASE module # "loaded"
  <2>1. /\ at' = at /\ module' \notin PositionSteps \cup {"loaded", "iounmap", "redgreen", "blue"}
    BY <1>2, ModulesIs DEF PositionSteps
  <2>2. \A p \in Procs : at'[p] \notin ColourUsers
    BY <1>2, <2>1 DEF ColourGood
  <2>3. \A p \in Procs : ColourDone(at[p], arg[p])' /\ at'[p] # "got"
    BY <2>2 DEF ColourDone, ColourUsers, ColourSteps
  <2>4. ColourDone(module, beige)'
    BY <2>1 DEF ColourDone
  <2> QED
    BY <2>1, <2>2, <2>3, <2>4 DEF ColourGood, ColourUsers
<1> QED
  BY <1>1, <1>2

(* Nor in the position.                                                    *)
LEMMA PositionModules ==
  ASSUME Held, PositionGood, Modules
  PROVE  PositionGood'
<1>1. CASE module = "loaded"
  <2>1. /\ module' = "iounmap" /\ UNCHANGED <<registers, dev, at, arg>>
        /\ \A p \in Procs : at[p] = "idle" /\ at'[p] = "idle"
    BY <1>1, ModulesIs
  <2>2. PositionAgrees'
    BY <1>1, <2>1 DEF PositionGood, PositionAgrees, PositionSteps, registers
  <2> QED
    BY <2>1, <2>2 DEF PositionGood, PositionDone, PositionSteps
<1>2. CASE module # "loaded"
  <2>1. at' = at /\ module' \notin PositionSteps \cup {"loaded", "iounmap"}
    BY <1>2, ModulesIs DEF PositionSteps
  <2>2. \A p \in Procs : at'[p] \notin PositionSteps
    BY <1>2, <2>1 DEF PositionGood
  <2>3. \A p \in Procs : PositionDone(at[p], arg[p])'
    BY <2>2 DEF PositionDone, PositionSteps
  <2> QED
    BY <2>1, <2>2, <2>3 DEF PositionGood
<1> QED
  BY <1>1, <1>2

(* The two halves of the writes at the end of the probe.                   *)
LEMMA InitializeIs ==
  ASSUME Initialize
  PROVE  /\ UNCHANGED <<at, arg, mixed>> /\ module \in Steps
         /\ \/ /\ module \in ColourSteps /\ write_background(beige, module)
               /\ module' = IF module = "blue" THEN "x" ELSE After[module]
            \/ /\ module \in PositionSteps /\ write_ball_pos(<<320, 240>>, module)
               /\ module' = IF module = "copy_y" THEN "loaded" ELSE After[module]
<1>1. UNCHANGED <<at, arg, mixed>>
  BY DEF Initialize, user
<1>2. CASE write_background(beige, module)
  <2>1. module \in ColourSteps
    BY <1>2 DEF write_background, ColourSteps
  <2> QED
    BY <1>1, <1>2, <2>1, StepsSplit DEF Initialize, ColourSteps
<1>3. CASE write_ball_pos(<<320, 240>>, module)
  <2>1. module \in PositionSteps
    BY <1>3 DEF write_ball_pos, PositionSteps
  <2> QED
    BY <1>1, <1>3, <2>1, StepsSplit DEF Initialize, PositionSteps
<1> QED
  BY <1>2, <1>3 DEF Initialize

(* The probe sets the colour and its copy to the same value.               *)
LEMMA ColourInitialize ==
  ASSUME DriverTypeOK, ColourGood, Initialize
  PROVE  ColourGood'
<1>1. dev \in Devices
  BY DEF DriverTypeOK, Devices
<1>2. \A p \in Procs : at'[p] \notin ColourUsers /\ at[p] \notin ColourUsers
  BY InitializeIs, StepsAre DEF ColourGood
<1>3. /\ \A p \in Procs : ColourDone(at[p], arg[p])' /\ at'[p] # "got"
      /\ \A p \in Procs : at[p] \notin ColourSteps
  BY <1>2 DEF ColourDone, ColourUsers, ColourSteps
<1>4. CASE module \in ColourSteps
  <2>1. /\ write_background(beige, module) /\ ColourDone(module, beige)
        /\ module' = IF module = "blue" THEN "x" ELSE After[module]
    BY <1>4, InitializeIs DEF ColourGood, ColourSteps, PositionSteps
  <2>2. CASE module = "blue"
    <3>1. ColourAgrees' /\ module' = "x"
      BY <1>1, <2>1, <2>2, LastByte, Constants
    <3> QED
      BY <1>2, <1>3, <3>1 DEF ColourGood, ColourSteps
  <2>3. CASE module # "blue"
    <3>1. module' \in {"redgreen", "blue"} /\ ColourDone(module, beige)'
      BY <1>1, <2>1, <2>3, ColourOn, Constants
    <3> QED
      BY <1>2, <1>3, <3>1 DEF ColourGood, PositionSteps
  <2> QED
    BY <2>2, <2>3
<1>5. CASE module \in PositionSteps
  <2>1. /\ write_ball_pos(<<320, 240>>, module)
        /\ module' = IF module = "copy_y" THEN "loaded" ELSE After[module]
    BY <1>5, InitializeIs DEF ColourSteps, PositionSteps
  <2>2. ColourAgrees
    BY <1>3, <1>5 DEF ColourGood
  <2>3. ColourAgrees'
    BY <1>1, <2>1, <2>2, PositionEffect, Constants DEF ColourAgrees
  <2>4. module' \notin ColourSteps
    BY <1>5, <2>1, AfterIs DEF PositionSteps, ColourSteps
  <2> QED
    BY <1>2, <1>3, <2>3, <2>4 DEF ColourGood
<1> QED
  BY <1>4, <1>5, InitializeIs, StepsSplit

(* And the position and its copies.                                        *)
LEMMA PositionInitialize ==
  ASSUME DriverTypeOK, PositionGood, Initialize
  PROVE  PositionGood'
<1>1. dev \in Devices
  BY DEF DriverTypeOK, Devices
<1>2. \A p \in Procs : at'[p] \notin PositionSteps
  BY InitializeIs, StepsAre DEF PositionGood
<1>3. \A p \in Procs : PositionDone(at[p], arg[p])'
  BY <1>2 DEF PositionDone, PositionSteps
<1>4. CASE module \in ColourSteps
  <2>1. module' \in {"redgreen", "blue", "x"}
    BY <1>4, InitializeIs, AfterIs DEF ColourSteps, PositionSteps
  <2>2. PositionDone(module, <<320, 240>>)'
    BY <2>1 DEF PositionDone
  <2> QED
    BY <1>2, <1>3, <2>1, <2>2 DEF PositionGood
<1>5. CASE module \in PositionSteps
  <2>1. /\ write_ball_pos(<<320, 240>>, module) /\ PositionDone(module, <<320, 240>>)
        /\ module' = IF module = "copy_y" THEN "loaded" ELSE After[module]
    BY <1>5, InitializeIs DEF PositionGood, ColourSteps, PositionSteps
  <2>2. CASE module = "copy_y"
    <3>1. PositionAgrees' /\ module' = "loaded"
      BY <1>1, <2>1, <2>2, LastCopy, Constants
    <3> QED
      BY <1>2, <1>3, <3>1 DEF PositionGood, PositionSteps
  <2>3. CASE module # "copy_y"
    <3>1. module' \in {"y", "copy_x", "copy_y"} /\ PositionDone(module, <<320, 240>>)'
      BY <1>1, <2>1, <2>3, PositionOn, Constants
    <3> QED
      BY <1>2, <1>3, <3>1 DEF PositionGood
  <2> QED
    BY <2>2, <2>3
<1> QED
  BY <1>4, <1>5, InitializeIs, StepsSplit

(* Where a step of a call leaves the callers.                              *)
LEMMA WriteOn ==
  ASSUME DriverTypeOK, NEW p \in Procs, Write(p)
  PROVE  /\ module' = module /\ mixed' = mixed
         /\ \A q \in Procs : q # p => at'[q] = at[q] /\ arg'[q] = arg[q]
         /\ After[at[p]] # "end" => at'[p] = After[at[p]] /\ arg'[p] = arg[p]
         /\ After[at[p]] = "end" => at'[p] = "idle"
BY DEF Write, Return, DriverTypeOK

(* Every step of a call takes the colour from good to good: it is the      *)
(* caller that is alone with it, or one that sets the position.            *)
LEMMA ColourWrite ==
  ASSUME DriverTypeOK, Asked, ColourGood, NEW p \in Procs, Write(p)
  PROVE  ColourGood'
<1>1. dev \in Devices
  BY DEF DriverTypeOK, Devices
<1>2. CASE at[p] \in ColourSteps
  <2>1. write_background(arg[p], at[p]) /\ arg[p] \in Triples /\ ColourDone(at[p], arg[p])
    BY <1>2, WriteIs DEF ColourGood, ColourSteps, PositionSteps
  <2>2. /\ module = "loaded" /\ module' = "loaded"
        /\ \A q \in Procs : q # p => at[q] \notin ColourUsers /\ at'[q] \notin ColourUsers
    BY <1>2, WriteOn DEF ColourGood, ColourUsers
  <2>3. \A q \in Procs : q # p => /\ ColourDone(at[q], arg[q])'
                                  /\ at'[q] # "got" /\ at'[q] \notin ColourSteps
    BY <2>2 DEF ColourDone, ColourUsers, ColourSteps
  <2>4. CASE at[p] = "blue"
    <3>1. at'[p] = "idle" /\ ColourAgrees'
      BY <1>1, <2>1, <2>4, LastByte, WriteOn, AfterIs
    <3>2. ColourDone(at[p], arg[p])'
      BY <3>1 DEF ColourDone
    <3> QED
      BY <2>2, <2>3, <3>1, <3>2 DEF ColourGood, ColourUsers, ColourSteps
  <2>5. CASE at[p] # "blue"
    <3> PICK pc, v : pc = at[p] /\ v = arg[p]
      OBVIOUS
    <3>1. After[pc] \in {"redgreen", "blue"} /\ ColourDone(After[pc], v)'
      BY <1>1, <2>1, <2>5, ColourOn
    <3>2. at'[p] = After[pc] /\ arg'[p] = v
      BY <3>1, WriteOn
    <3>3. ColourDone(at[p], arg[p])'
      BY <3>1, <3>2 DEF ColourDone
    <3> QED
      BY <2>2, <2>3, <3>1, <3>2, <3>3 DEF ColourGood, ColourUsers, ColourSteps
  <2> QED
    BY <2>4, <2>5
<1>3. CASE at[p] \in PositionSteps
  <2>1. write_ball_pos(arg[p], at[p]) /\ arg[p] \in Nat \X Nat
    BY <1>3, WriteIs DEF ColourSteps, PositionSteps
  <2>2. background' = background /\ dev'.background = dev.background
    BY <1>1, <2>1, PositionEffect
  <2>3. at[p] \notin ColourSteps /\ at'[p] \notin ColourUsers
    BY <1>3, WriteOn, AfterIs DEF ColourUsers, ColourSteps, PositionSteps
  <2> QED
    BY <2>2, <2>3, WriteOn, ColourFrame
<1> QED
  BY <1>2, <1>3, WriteIs

(* The caller p is at pc with v after the step.                            *)
LEMMA PositionMoved ==
  ASSUME NEW p, NEW pc, NEW v, PositionDone(pc, v)', at'[p] = pc, arg'[p] = v
  PROVE  PositionDone(at[p], arg[p])'
<1> DEFINE Good(a, b) ==
             /\ a \in {"y", "copy_x", "copy_y"} => ball_x' = b[1] \/ b[1] > 639
             /\ a \in {"copy_x", "copy_y"} => ball_y' = b[2] \/ b[2] > 479
             /\ a = "copy_y" => dev'.ball_x = b[1]
<1>1. Good(pc, v)
  BY DEF PositionDone
<1>2. Good(at'[p], arg'[p])
  <2> HIDE DEF Good
  <2> QED
    BY <1>1
<1> QED
  BY <1>2 DEF PositionDone

(* And the position.                                                       *)
LEMMA PositionWrite ==
  ASSUME DriverTypeOK, Asked, PositionGood, NEW p \in Procs, Write(p)
  PROVE  PositionGood'
<1>1. dev \in Devices
  BY DEF DriverTypeOK, Devices
<1>2. CASE at[p] \in PositionSteps
  <2>1. /\ write_ball_pos(arg[p], at[p]) /\ arg[p] \in Nat \X Nat
        /\ PositionDone(at[p], arg[p])
    BY <1>2, WriteIs DEF PositionGood, ColourSteps, PositionSteps
  <2>2. /\ module = "loaded" /\ module' = "loaded"
        /\ \A q \in Procs : q # p => at[q] \notin PositionSteps /\ at'[q] \notin PositionSteps
    BY <1>2, WriteOn DEF PositionGood
  <2>3. \A q \in Procs : q # p => PositionDone(at[q], arg[q])'
    BY <2>2 DEF PositionDone, PositionSteps
  <2>4. CASE at[p] = "copy_y"
    <3>1. at'[p] = "idle" /\ PositionAgrees'
      BY <1>1, <2>1, <2>4, LastCopy, WriteOn, AfterIs
    <3>2. PositionDone(at[p], arg[p])'
      BY <3>1 DEF PositionDone
    <3> QED
      BY <2>2, <2>3, <3>1, <3>2 DEF PositionGood, PositionSteps
  <2>5. CASE at[p] # "copy_y"
    <3> PICK pc, v : pc = at[p] /\ v = arg[p]
      OBVIOUS
    <3>1. After[pc] \in {"y", "copy_x", "copy_y"} /\ PositionDone(After[pc], v)'
      BY <1>1, <2>1, <2>5, PositionOn
    <3>2. at'[p] = After[pc] /\ arg'[p] = v
      BY <3>1, WriteOn
    <3>3. PositionDone(at[p], arg[p])'
      BY <3>1, <3>2, PositionMoved
    <3> QED
      BY <2>2, <2>3, <3>1, <3>2, <3>3 DEF PositionGood, PositionSteps
  <2> QED
    BY <2>4, <2>5
<1>3. CASE at[p] \in ColourSteps
  <2>1. write_background(arg[p], at[p]) /\ arg[p] \in Triples
    BY <1>3, WriteIs DEF ColourSteps, PositionSteps
  <2>2. /\ ball_x' = ball_x /\ ball_y' = ball_y
        /\ dev'.ball_x = dev.ball_x /\ dev'.ball_y = dev.ball_y
    BY <1>1, <2>1, ColourEffect
  <2>3. at[p] \notin PositionSteps /\ at'[p] \notin PositionSteps
    BY <1>3, WriteOn, AfterIs DEF ColourSteps, PositionSteps
  <2> QED
    BY <2>2, <2>3, WriteOn, PositionFrame
<1> QED
  BY <1>2, <1>3, WriteIs

(* A call that begins alone begins well, whatever was before.              *)
LEMMA ColourAlone ==
  ASSUME DriverTypeOK, NEW p \in Procs, NEW c, VGA_BALL_WRITE_BACKGROUND(p, c),
         "colour" \notin mixed'
  PROVE  ColourGood'
<1>1. ~Busy(ColourUsers)
  BY DEF VGA_BALL_WRITE_BACKGROUND, ColourUsers
<1>2. /\ module' = "loaded" /\ at'[p] = "background"
      /\ \A q \in Procs : q # p => at'[q] \notin ColourUsers
  BY <1>1 DEF VGA_BALL_WRITE_BACKGROUND, Ioctl, DriverTypeOK, Busy
<1>3. \A q \in Procs : ColourDone(at[q], arg[q])' /\ at'[q] # "got"
  BY <1>2 DEF ColourDone, ColourUsers, ColourSteps
<1> QED
  BY <1>2, <1>3 DEF ColourGood, ColourUsers, ColourSteps

(* The same for the position.                                              *)
LEMMA PositionAlone ==
  ASSUME DriverTypeOK, NEW p \in Procs, NEW v, VGA_BALL_SET_POS(p, v),
         "position" \notin mixed'
  PROVE  PositionGood'
<1>1. ~Busy(PositionSteps)
  BY DEF VGA_BALL_SET_POS
<1>2. /\ module' = "loaded" /\ at'[p] = "x"
      /\ \A q \in Procs : q # p => at'[q] \notin PositionSteps
  BY <1>1 DEF VGA_BALL_SET_POS, Ioctl, DriverTypeOK, Busy
<1>3. \A q \in Procs : PositionDone(at[q], arg[q])'
  BY <1>2 DEF PositionDone, PositionSteps
<1> QED
  BY <1>2, <1>3 DEF PositionGood, PositionSteps

(* A reader that comes alone disturbs nothing.                             *)
LEMMA ColourReader ==
  ASSUME DriverTypeOK, ColourGood, NEW p \in Procs, VGA_BALL_READ_BACKGROUND(p),
         "colour" \notin mixed'
  PROVE  ColourGood'
<1>1. module = "loaded" /\ \A q \in Procs : at[q] \notin ColourSteps
  BY DEF VGA_BALL_READ_BACKGROUND, Busy
<1>2. /\ UNCHANGED <<background, dev, module>> /\ at'[p] = "read"
      /\ \A q \in Procs : q # p => at'[q] = at[q] /\ arg'[q] = arg[q]
  BY DEF VGA_BALL_READ_BACKGROUND, Ioctl, DriverTypeOK, device, registers
<1>3. ColourAgrees'
  BY <1>1, <1>2 DEF ColourGood, ColourAgrees
<1>4. \A q \in Procs : ColourDone(at[q], arg[q])' /\ at'[q] \notin ColourSteps
  BY <1>1, <1>2 DEF ColourDone, ColourSteps
<1>5. \A q \in Procs : at'[q] = "got" => arg'[q] = background'
  BY <1>2 DEF ColourGood
<1>6. module' \notin ColourSteps
  BY <1>1, <1>2 DEF ColourSteps
<1> QED
  BY <1>1, <1>2, <1>3, <1>4, <1>5, <1>6 DEF ColourGood

(* What is read is what is shown.                                          *)
LEMMA ColourRead ==
  ASSUME DriverTypeOK, ColourGood, NEW p \in Procs, Read(p)
  PROVE  ColourGood'
<1>1. /\ at[p] = "read" /\ at'[p] = "got" /\ arg'[p] = dev.background
      /\ UNCHANGED <<background, dev, module>>
      /\ \A q \in Procs : q # p => at'[q] = at[q] /\ arg'[q] = arg[q]
  BY DEF Read, DriverTypeOK, device, registers
<1>2. module = "loaded" /\ \A q \in Procs : at[q] \notin ColourSteps
  BY <1>1 DEF ColourGood, ColourUsers, ColourSteps
<1>3. ColourAgrees /\ ColourAgrees'
  BY <1>1, <1>2 DEF ColourGood, ColourAgrees
<1>4. \A q \in Procs : ColourDone(at[q], arg[q])' /\ at'[q] \notin ColourSteps
  BY <1>1, <1>2 DEF ColourDone, ColourSteps
<1>5. \A q \in Procs : at'[q] = "got" => arg'[q] = background'
  BY <1>1, <1>3 DEF ColourGood, ColourAgrees
<1>6. module' \notin ColourSteps
  BY <1>1, <1>2 DEF ColourSteps
<1> QED
  BY <1>1, <1>2, <1>3, <1>4, <1>5, <1>6 DEF ColourGood

Quiet == /\ "colour" \notin mixed => ColourGood
         /\ "position" \notin mixed => PositionGood

(* Callers that come and go without a write.                               *)
LEMMA QuietCallers ==
  ASSUME DriverTypeOK, Held, Quiet,
         \/ \E p \in Procs : Open(p) \/ Close(p) \/ Got(p) \/ Oops(p)
         \/ UNCHANGED vars
  PROVE  Quiet'
<1>1. UNCHANGED <<registers, dev, module, mixed>>
  BY DEF Open, Close, Got, Oops, vars, user, device
<1>2. ASSUME ColourGood
      PROVE  ColourGood'
  <2>1. \A q \in Procs : \/ at'[q] = at[q] /\ arg'[q] = arg[q]
                         \/ at[q] \notin ColourSteps /\ at'[q] \notin ColourUsers
    <3>1. \A q \in Procs : at[q] \in ColourSteps => mapped
      BY <1>2 DEF ColourGood, ColourUsers, Held
    <3> QED
      BY <3>1 DEF Open, Close, Got, Oops, Return, vars, user, DriverTypeOK, ColourUsers,
                  ColourSteps
  <2> QED
    BY <1>1, <1>2, <2>1, ColourFrame DEF registers
<1>3. ASSUME PositionGood
      PROVE  PositionGood'
  <2>1. \A q \in Procs : \/ at'[q] = at[q] /\ arg'[q] = arg[q]
                         \/ at[q] \notin PositionSteps /\ at'[q] \notin PositionSteps
    <3>1. \A q \in Procs : at[q] \in PositionSteps => mapped
      BY <1>3 DEF PositionGood, Held
    <3> QED
      BY <3>1 DEF Open, Close, Got, Oops, Return, vars, user, DriverTypeOK, PositionSteps
  <2> QED
    BY <1>1, <1>3, <2>1, PositionFrame DEF registers
<1> QED
  BY <1>1, <1>2, <1>3 DEF Quiet

(* The beginning of a call, and the one access of a reader.                *)
LEMMA QuietCalls ==
  ASSUME DriverTypeOK, Quiet, NEW p \in Procs, Calls(p) \/ Read(p)
  PROVE  Quiet'
<1>1. UNCHANGED <<background, ball_x, ball_y, dev, module>>
  BY CallIs DEF Read, device, registers
<1>2. CASE \E c \in Triples : VGA_BALL_WRITE_BACKGROUND(p, c)
  <2>1. PICK c \in Triples : VGA_BALL_WRITE_BACKGROUND(p, c)
    BY <1>2
  <2>2. "position" \in mixed' <=> "position" \in mixed
    BY <2>1 DEF VGA_BALL_WRITE_BACKGROUND
  <2>3. \A q \in Procs : \/ at'[q] = at[q] /\ arg'[q] = arg[q]
                         \/ at[q] \notin PositionSteps /\ at'[q] \notin PositionSteps
    BY <2>1 DEF VGA_BALL_WRITE_BACKGROUND, Ioctl, DriverTypeOK, PositionSteps
  <2> QED
    BY <1>1, <2>1, <2>2, <2>3, PositionFrame, ColourAlone DEF Quiet
<1>3. CASE \E v \in Nat \X Nat : VGA_BALL_SET_POS(p, v)
  <2>1. PICK v \in Nat \X Nat : VGA_BALL_SET_POS(p, v)
    BY <1>3
  <2>2. "colour" \in mixed' <=> "colour" \in mixed
    BY <2>1 DEF VGA_BALL_SET_POS
  <2>3. \A q \in Procs : \/ at'[q] = at[q] /\ arg'[q] = arg[q]
                         \/ at[q] \notin ColourSteps /\ at'[q] \notin ColourUsers
    BY <2>1 DEF VGA_BALL_SET_POS, Ioctl, DriverTypeOK, ColourSteps, ColourUsers
  <2> QED
    BY <1>1, <2>1, <2>2, <2>3, ColourFrame, PositionAlone DEF Quiet
<1>4. CASE VGA_BALL_READ_BACKGROUND(p) \/ Read(p)
  <2>1. /\ "position" \in mixed' <=> "position" \in mixed
        /\ "colour" \notin mixed' => "colour" \notin mixed
    BY <1>4 DEF VGA_BALL_READ_BACKGROUND, Read
  <2>2. \A q \in Procs : \/ at'[q] = at[q] /\ arg'[q] = arg[q]
                         \/ at[q] \notin PositionSteps /\ at'[q] \notin PositionSteps
    BY <1>4 DEF VGA_BALL_READ_BACKGROUND, Ioctl, Read, DriverTypeOK, PositionSteps
  <2> QED
    BY <1>1, <1>4, <2>1, <2>2, PositionFrame, ColourReader, ColourRead DEF Quiet
<1> QED
  BY <1>2, <1>3, <1>4 DEF Calls

(* What no calls have mixed agrees, and a call alone separates it again.   *)
LEMMA QuietStep ==
  ASSUME DriverTypeOK, Asked, Held, Quiet, [Next]_vars
  PROVE  Quiet'
<1>1. CASE Modules
  BY <1>1, ModulesIs, ColourModules, PositionModules DEF Quiet
<1>2. CASE Initialize
  BY <1>2, InitializeIs, ColourInitialize, PositionInitialize DEF Quiet
<1>3. ASSUME NEW p \in Procs, Write(p)
      PROVE  Quiet'
  BY <1>3, WriteOn, ColourWrite, PositionWrite DEF Quiet
<1> QED
  BY <1>1, <1>2, <1>3, QuietCallers, QuietCalls, NextCalls DEF Next, Modules

(* However many processes there are, the driver has what is on the screen, *)
(* and reads it back, once a call that is alone has set it; calls for the  *)
(* other register do not matter: vga_ball.c:56-104.                        *)
THEOREM CopiesAgreeCorrect == Spec => []CopiesAgree
<1>1. Init => Quiet
  BY DEF Init, Quiet, ColourGood, PositionGood, ColourDone, PositionDone, ColourUsers,
         ColourSteps, PositionSteps
<1>2. Quiet => CopiesAgree
  <2>1. ColourGood =>
          /\ \A p \in Procs : at[p] = "got" => arg[p] = background
          /\ module \in {"loaded", "iounmap"}
               /\ (\A p \in Procs : at[p] \notin ColourSteps) => dev.background = background
    BY DEF ColourGood, ColourAgrees
  <2>2. PositionGood =>
          (module \in {"loaded", "iounmap"}
             /\ (\A p \in Procs : at[p] \notin PositionSteps) => PositionAgrees)
    BY DEF PositionGood
  <2> QED
    BY <2>1, <2>2 DEF Quiet, CopiesAgree, PositionAgrees
<1> QED
  BY <1>1, <1>2, QuietStep, HeldAlways, DriverTypeCorrect, PTL DEF Spec

-----------------------------------------------------------------------------
(* The driver and the circuit together: on every edge of the clock the     *)
(* counters move on, and the driver and the processes take a step or none. *)
(* The reset line stays down.                                              *)
VARIABLES hcount, vcount

Words == (0 .. 7) \X Nat

circuit == INSTANCE VgaBallProofs WITH Writes <- Words, reset <- FALSE

SystemSpec ==
  /\ Init /\ circuit!Cleared
  /\ [][circuit!Count /\ [Next]_vars]_<<vars, hcount, vcount>>

(* What a step of write_background or of write_ball_pos does to the        *)
(* registers, one word at most reaches the bus.                            *)
LEMMA OneWord ==
  ASSUME NEW c, NEW pc, dev \in Devices,
         \/ c \in Triples /\ write_background(c, pc)
         \/ c \in Nat \X Nat /\ write_ball_pos(c, pc)
  PROVE  UNCHANGED registers \/ \E w \in Words : BusWrite(w[1], w[2])
<1>1. CASE c \in Triples /\ write_background(c, pc)
  <2>1. CASE BusWrite(0, Word(c))
    <3>1. <<0, Word(c)>> \in Words
      BY <1>1, WordWhole DEF Words
    <3> QED
      BY <2>1, <3>1
  <2> QED
    BY <1>1, <2>1 DEF write_background
<1>2. CASE c \in Nat \X Nat /\ write_ball_pos(c, pc)
  <2>1. CASE BusWrite(1, c[1])
    <3>1. <<1, c[1]>> \in Words
      BY <1>2 DEF Words
    <3> QED
      BY <2>1, <3>1
  <2>2. CASE BusWrite(2, c[2])
    <3>1. <<2, c[2]>> \in Words
      BY <1>2 DEF Words
    <3> QED
      BY <2>2, <3>1
  <2> QED
    BY <1>2, <2>1, <2>2 DEF write_ball_pos
<1> QED
  BY <1>1, <1>2

(* Every step of the driver and of its callers writes one word or none.    *)
LEMMA StepWrites ==
  ASSUME DriverTypeOK, Asked, [Next]_vars
  PROVE  UNCHANGED registers \/ \E w \in Words : BusWrite(w[1], w[2])
<1>0. dev \in Devices
  BY DEF DriverTypeOK, Devices
<1>1. CASE Initialize
  BY <1>0, <1>1, OneWord, Constants DEF Initialize
<1>2. ASSUME NEW p \in Procs, Write(p)
      PROVE  UNCHANGED registers \/ \E w \in Words : BusWrite(w[1], w[2])
  BY <1>0, <1>2, OneWord, WriteIs
<1> QED
  BY <1>1, <1>2, RegistersAlone

(* The circuit that the driver writes to is the one of VgaBall: no word    *)
(* that the driver sends, and no interleaving of its callers, takes the    *)
(* circuit out of what is proved of it.                                    *)
THEOREM DriverDrivesCircuit == SystemSpec => Spec /\ circuit!Spec
<1>1. Init /\ circuit!Cleared => circuit!Init
  BY DEF Init, circuit!Init, RegistersReset, circuit!RegistersReset,
         ResetColour, circuit!ResetColour
<1>2. [circuit!Count /\ [Next]_vars]_<<vars, hcount, vcount>> => [Next]_vars
  BY DEF vars
<1>3. DriverTypeOK /\ Asked /\ [circuit!Count /\ [Next]_vars]_<<vars, hcount, vcount>>
        => [circuit!Next]_(circuit!vars)
  <2> SUFFICES ASSUME DriverTypeOK, Asked,
                      [circuit!Count /\ [Next]_vars]_<<vars, hcount, vcount>>
               PROVE  [circuit!Next]_(circuit!vars)
    OBVIOUS
  <2>1. CASE circuit!Count /\ [Next]_vars
    <3>1. UNCHANGED registers \/ \E w \in Words : BusWrite(w[1], w[2])
      BY <2>1, StepWrites
    <3>2. circuit!Edge
      BY <2>1, <3>1 DEF circuit!Edge, registers, circuit!registers, BusWrite,
                        circuit!BusWrite, InRange, circuit!InRange
    <3> QED
      BY <3>2 DEF circuit!Next
  <2>2. CASE UNCHANGED <<vars, hcount, vcount>>
    BY <2>2 DEF vars, device, registers, circuit!vars, circuit!registers, circuit!counters
  <2> QED
    BY <2>1, <2>2
<1>4. SystemSpec => Spec
  BY <1>2, PTL DEF SystemSpec, Spec
<1> QED
  BY <1>1, <1>3, <1>4, DriverTypeCorrect, PTL DEF SystemSpec, circuit!Spec

(* What a viewer sees.  A place of the visible area has the colour of the  *)
(* ball or a background somebody asked for; and once the last calls for    *)
(* each were alone it is the disk around the last position over the last   *)
(* colour, as the driver has them, unless that position was off the screen. *)
Visible == hcount < circuit!HACTIVE /\ vcount < circuit!VACTIVE

Settled ==
  /\ mixed = {} /\ module = "loaded" /\ \A p \in Procs : at[p] \notin Steps
  /\ dev.ball_x <= 639 /\ dev.ball_y <= 479

ScreenShows ==
  LET across == hcount \div 2 - dev.ball_x
      below == vcount - dev.ball_y
  IN Visible =>
       /\ circuit!Colour \in Colours \cup {beige, ResetColour, circuit!Red}
       /\ Settled => circuit!Colour = IF across * across + below * below <= 256
                                     THEN circuit!Red ELSE dev.background

(* From the ioctl to the pixel: the calls of any processes, the words of   *)
(* vga_ball.c and the comparators of vga_ball.sv together show what was    *)
(* asked for, at every clock of every field.                               *)
THEOREM ScreenCorrect == SystemSpec => []ScreenShows
<1>1. circuit!Spec => []circuit!DrawsDisk
  <2>1. Words \subseteq (0 .. 7) \X Nat
    BY DEF Words
  <2> QED
    BY <2>1, circuit!DrawsDiskCorrect
<1>2. DriverTypeOK /\ ShownWhole /\ CopiesAgree /\ circuit!DrawsDisk => ScreenShows
  <2> SUFFICES ASSUME DriverTypeOK, ShownWhole, CopiesAgree, circuit!DrawsDisk, Visible
               PROVE  ScreenShows
    BY DEF ScreenShows
  <2>1. circuit!Colour \in {circuit!Red, background}
    BY DEF circuit!DrawsDisk, Visible
  <2>2. ASSUME Settled
        PROVE  dev.background = background /\ dev.ball_x = ball_x /\ dev.ball_y = ball_y
    <3>1. dev.ball_x \in Nat /\ dev.ball_y \in Nat
      BY DEF DriverTypeOK
    <3> QED
      BY <2>2, <3>1, StepsSplit DEF Settled, CopiesAgree
  <2> QED
    BY <2>1, <2>2 DEF ScreenShows, ShownWhole, circuit!DrawsDisk, Visible
<1> QED
  BY <1>1, <1>2, DriverDrivesCircuit, DriverTypeCorrect, ShownWholeCorrect,
     CopiesAgreeCorrect, PTL

-----------------------------------------------------------------------------
(* Hello on the driver, with what is proved of it.                         *)
proofs == INSTANCE HelloProofs WITH pc <- Seen

(* What the driver works on is what main asked for in the call it is at,   *)
(* and the registers stay mapped.                                          *)
Calling ==
  /\ DriverTypeOK /\ Asked /\ mapped = TRUE
  /\ x \in Int /\ y \in Int /\ dx \in Int /\ dy \in Int
  /\ where \in {"open", "colour", "pos", "move", "ended"}
  /\ at[hello] \in ColourSteps =>
       where = "colour" /\ arg[hello] = <<0, 0, 64>>
  /\ at[hello] \in PositionSteps =>
       where = "pos" /\ arg[hello] = <<x % 2^16, y % 2^16>>
  /\ at[hello] \in {"idle"} \cup ColourSteps \cup PositionSteps

(* The driver takes part with steps of its own, and with calls for any     *)
(* position.                                                               *)
LEMMA DrivenIsDriver ==
  ASSUME Calling, [DrivenNext]_dvars
  PROVE  [Next]_vars \/ \E p \in Procs : Calls(p)
<1>1. CASE ColourCall
  <2>1. <<0, 0, 64>> \in Triples
    BY DEF Triples
  <2> QED
    BY <1>1, <2>1, HelloRuns DEF ColourCall, Calls
<1>2. CASE PosCall
  <2>1. x % 2^16 \in Nat /\ y % 2^16 \in Nat
    BY SMT DEF Calling
  <2>2. <<x % 2^16, y % 2^16>> \in Nat \X Nat
    BY <2>1
  <2> QED
    BY <1>2, <2>2, HelloRuns, Zenon DEF PosCall, Calls
<1>3. CASE OpenCall \/ InCall \/ Exit
  BY <1>3, HelloRuns DEF OpenCall, InCall, Exit, Next
<1> QED
  BY <1>1, <1>2, <1>3 DEF DrivenNext, PosFails, MoveOn, dvars

(* The coordinates of a pair.                                              *)
LEMMA Coordinates ==
  ASSUME NEW A, NEW B, NEW q \in A \X B
  PROVE  q[1] \in A /\ q[2] \in B
OBVIOUS

(* A centre the FPGA may have been left with is on the screen.             *)
LEMMA LeftOnScreen ==
  DrivenInit => ball_x \in 0 .. 639 /\ ball_y \in 0 .. 479
<1> DEFINE A == 0 .. 639
           B == 0 .. 479
<1>1. \A q \in A \X B : q[1] \in A /\ q[2] \in B
  <2> HIDE DEF A, B
  <2> QED
    BY Coordinates
<1> HIDE DEF A, B
<1>2. DrivenInit => \E q \in Left : ball_x = q[1] /\ ball_y = q[2]
  BY Zenon DEF DrivenInit
<1>3. Left \subseteq A \X B /\ DrivenInit => ball_x \in A /\ ball_y \in B
  BY <1>1, <1>2, Zenon
<1> QED
  BY <1>3, HelloAssumption, Zenon DEF A, B

(* The registers hold a colour of three bytes and two coordinates.         *)
LEMMA RegistersHold ==
  RegistersTypeOK => background \in Triples /\ ball_x \in Nat /\ ball_y \in Nat
<1>1. RegistersTypeOK => background \in Triples
  BY DEF RegistersTypeOK, Triples
<1>2. RegistersTypeOK => ball_x \in Nat /\ ball_y \in Nat
  <2>1. RegistersTypeOK => ball_x \in 0 .. 639 /\ ball_y \in 0 .. 479
    BY Zenon DEF RegistersTypeOK
  <2> QED
    BY <2>1
<1> QED
  BY <1>1, <1>2, Zenon

(* Nothing is called yet.                                                  *)
LEMMA CallingInit == DrivenInit => Calling
<1> SUFFICES ASSUME ball_x \in 0 .. 639, ball_y \in 0 .. 479, DrivenInit
             PROVE  Calling
  BY LeftOnScreen
<1> USE HelloRuns
<1>1. RegistersTypeOK
  <2>1. background \in Triples
    BY Constants DEF DrivenInit
  <2> QED
    BY <2>1 DEF RegistersTypeOK, Triples
<1>2. dev \in Devices
  <2>1. background \in Triples /\ ball_x \in Nat /\ ball_y \in Nat
    BY <1>1, RegistersHold, Zenon
  <2>2. dev = [background |-> background, ball_x |-> ball_x, ball_y |-> ball_y]
    BY DEF DrivenInit
  <2> QED
    BY <2>1, <2>2 DEF Devices
<1>3. DriverTypeOK
  <2>1. /\ at \in [Procs -> Steps \cup {"idle", "read", "got"}]
        /\ arg \in [Procs -> Triples \cup (Nat \X Nat) \cup {<<>>}]
    BY DEF DrivenInit
  <2>2. /\ misc \in BOOLEAN /\ region \in BOOLEAN /\ mapped \in BOOLEAN
        /\ going \in BOOLEAN /\ mixed \subseteq {"colour", "position"}
        /\ open \subseteq Procs /\ early \subseteq open /\ module = "loaded"
    BY DEF DrivenInit
  <2> QED
    BY <1>1, <1>2, <2>1, <2>2 DEF DriverTypeOK, Devices
<1>4. Asked
  BY DEF DrivenInit, Asked, ColourSteps, PositionSteps
<1>5. at[hello] = "idle" /\ where = "open" /\ mapped = TRUE
  BY HelloRuns DEF DrivenInit
<1>6. x \in Int /\ y \in Int /\ dx \in Int /\ dy \in Int
  <2>1. Start
    BY DEF DrivenInit
  <2> QED
    BY <2>1 DEF Start
<1> QED
  BY <1>3, <1>4, <1>5, <1>6 DEF Calling, ColourSteps, PositionSteps

(* The colour hello.c asks for, as one word.                               *)
LEMMA BlueWord == Word(<<0, 0, 64>>) = 64
<1>1. Word(<<0, 0, 64>>) = 0 * 2^16 + 0 * 256 + 64
  BY DEF Word
<1>2. 0 * 2^16 = 0 /\ 0 * 256 = 0
  BY SMT
<1> QED
  BY <1>1, <1>2

(* Each step of the call main is at leads to the next.                     *)
LEMMA CallStep ==
  ASSUME Calling, InCall
  PROVE  \/ /\ at[hello] = "background" /\ at'[hello] = "redgreen" /\ BusWrite(0, 64)
            /\ where = "colour" /\ where' = "colour"
         \/ /\ at[hello] = "redgreen" /\ at'[hello] = "blue" /\ UNCHANGED registers
            /\ where = "colour" /\ where' = "colour"
         \/ /\ at[hello] = "blue" /\ at'[hello] = "idle" /\ UNCHANGED registers
            /\ where = "colour" /\ where' = "pos"
         \/ /\ at[hello] = "x" /\ at'[hello] = "y" /\ BusWrite(1, x % 2^16)
            /\ where = "pos" /\ where' = "pos"
         \/ /\ at[hello] = "y" /\ at'[hello] = "copy_x" /\ BusWrite(2, y % 2^16)
            /\ where = "pos" /\ where' = "pos"
         \/ /\ at[hello] = "copy_x" /\ at'[hello] = "copy_y" /\ UNCHANGED registers
            /\ where = "pos" /\ where' = "pos"
         \/ /\ at[hello] = "copy_y" /\ at'[hello] = "idle" /\ UNCHANGED registers
            /\ where = "pos" /\ where' = "move"
<1> USE HelloRuns
<1>1. /\ Write(hello) /\ at \in [Procs -> Steps \cup {"idle", "read", "got"}]
      /\ where' = IF at'[hello] # "idle" THEN where
                  ELSE IF where = "colour" THEN "pos" ELSE "move"
  BY DEF InCall, Calling, DriverTypeOK
<1>2. at'[hello] = IF After[at[hello]] = "end" THEN "idle" ELSE After[at[hello]]
  BY <1>1 DEF Write, Return
<1>3. CASE write_background(arg[hello], at[hello])
  <2>1. at[hello] \in ColourSteps
    BY <1>3 DEF write_background, ColourSteps
  <2>2. where = "colour" /\ Word(arg[hello]) = 64
    <3>1. where = "colour" /\ arg[hello] = <<0, 0, 64>>
      BY <2>1, Zenon DEF Calling
    <3> QED
      BY <3>1, BlueWord
  <2>3. After["background"] = "redgreen" /\ After["redgreen"] = "blue"
        /\ After["blue"] = "end"
    BY DEF After
  <2> QED
    BY <1>1, <1>2, <1>3, <2>2, <2>3 DEF write_background
<1>4. CASE write_ball_pos(arg[hello], at[hello])
  <2>1. at[hello] \in PositionSteps
    BY <1>4 DEF write_ball_pos, PositionSteps
  <2>2. where = "pos" /\ arg[hello][1] = x % 2^16 /\ arg[hello][2] = y % 2^16
    <3>1. where = "pos" /\ arg[hello] = <<x % 2^16, y % 2^16>>
      BY <2>1, Zenon DEF Calling
    <3> QED
      BY <3>1
  <2>3. After["x"] = "y" /\ After["y"] = "copy_x" /\ After["copy_x"] = "copy_y"
        /\ After["copy_y"] = "end"
    BY DEF After
  <2> QED
    BY <1>1, <1>2, <1>4, <2>2, <2>3 DEF write_ball_pos
<1> QED
  BY <1>1, <1>3, <1>4 DEF Write

(* Every step keeps this.                                                  *)
LEMMA CallingStep == Calling /\ [DrivenNext]_dvars => Calling'
<1> SUFFICES ASSUME Calling, [DrivenNext]_dvars PROVE Calling'
  OBVIOUS
<1> USE HelloRuns
<1>1. DriverTypeOK' /\ Asked'
  BY DrivenIsDriver, TypeStep DEF Calling
<1>2. CASE OpenCall \/ PosFails \/ Exit \/ UNCHANGED dvars
  BY <1>1, <1>2 DEF OpenCall, PosFails, Exit, Open, Close, Calling, dvars, vars, user, ball,
                    ColourSteps, PositionSteps
<1>3. CASE ColourCall
  <2>1. /\ UNCHANGED <<mapped, x, y, dx, dy>> /\ where = "colour"
        /\ \/ at'[hello] = "background" /\ arg'[hello] = <<0, 0, 64>> /\ where' = "colour"
           \/ at'[hello] = "idle" /\ where' = "pos"
    BY <1>3 DEF ColourCall, VGA_BALL_WRITE_BACKGROUND, Ioctl, Calling, DriverTypeOK, ball,
                vars, user
  <2> QED
    BY <1>1, <2>1 DEF Calling, ColourSteps, PositionSteps
<1>4. CASE PosCall
  <2>1. /\ UNCHANGED <<mapped, x, y, dx, dy, where>> /\ where = "pos"
        /\ at'[hello] = "x" /\ arg'[hello] = <<x % 2^16, y % 2^16>>
    BY <1>4 DEF PosCall, VGA_BALL_SET_POS, Ioctl, Calling, DriverTypeOK, ball
  <2> QED
    BY <1>1, <2>1 DEF Calling, ColourSteps, PositionSteps
<1>5. CASE InCall
  <2>1. mapped' = TRUE /\ UNCHANGED <<x, y, dx, dy>>
    BY <1>5 DEF InCall, Write, Calling, ball
  <2>2. at'[hello] # "idle" => arg' = arg
    <3>1. CASE After[at[hello]] = "end"
      <4>1. at' = [at EXCEPT ![hello] = "idle"]
        BY <1>5, <3>1, Zenon DEF InCall, Write, Return
      <4>2. at \in [Procs -> Steps \cup {"idle", "read", "got"}]
        BY DEF Calling, DriverTypeOK
      <4> QED
        BY <4>1, <4>2
    <3>2. CASE After[at[hello]] # "end"
      BY <1>5, <3>2, Zenon DEF InCall, Write
    <3> QED
      BY <3>1, <3>2
  <2> QED
    BY <1>1, <1>5, <2>1, <2>2, CallStep DEF Calling, ColourSteps, PositionSteps
<1>6. CASE MoveOn
  <2>1. UNCHANGED <<mapped, at, arg>> /\ where = "move" /\ where' \in {"pos", "ended"}
    BY <1>6 DEF MoveOn, vars, user
  <2>2. x' \in Int /\ y' \in Int /\ dx' \in Int /\ dy' \in Int
    <3>1. x \in Int /\ y \in Int /\ dx \in Int /\ dy \in Int
      BY DEF Calling
    <3>2. /\ x' = x + dx /\ y' = y + dy
          /\ dx' \in {dx, -dx} /\ dy' \in {dy, -dy}
      BY <1>6 DEF MoveOn, Advance, Turn
    <3> QED
      BY <3>1, <3>2
  <2> QED
    BY <1>1, <2>1, <2>2 DEF Calling, ColourSteps, PositionSteps
<1> QED
  BY <1>2, <1>3, <1>4, <1>5, <1>6 DEF DrivenNext

(* A step of the program on the driver is one of Hello.                    *)
LEMMA DrivenIsHello == Calling /\ [DrivenNext]_dvars => [prog!Next]_(prog!vars)
<1> SUFFICES ASSUME Calling, [DrivenNext]_dvars
             PROVE  [prog!Next]_(prog!vars)
  OBVIOUS
<1> DEFINE Same == UNCHANGED <<background, ball_x, ball_y>>
           Kept == UNCHANGED <<x, y, dx, dy, i>>
<1> USE HelloRuns DEF prog!vars, prog!registers, prog!ball, ball
<1>1. CASE OpenCall
  <2>1. Seen = "open" /\ Seen' \in {"colour", "ended"} /\ Same /\ Kept /\ fails' = fails
    BY <1>1 DEF OpenCall, Open, Calling, Seen, vars, user, device, registers,
                ColourSteps, PositionSteps
  <2> QED
    BY <2>1 DEF prog!Next, prog!OpenDevice
<1>2. CASE ColourCall
  <2>1. Seen = "colour" /\ Seen' \in {"colour", "x"} /\ Same /\ Kept /\ fails' = fails
    BY <1>2 DEF ColourCall, VGA_BALL_WRITE_BACKGROUND, Ioctl, Seen, vars, user, device,
                registers, Calling, DriverTypeOK
  <2> QED
    BY <2>1 DEF prog!Next, prog!SetBackground
<1>3. CASE PosCall
  <2>1. Seen' = Seen /\ Same /\ Kept /\ fails' = fails
    BY <1>3 DEF PosCall, VGA_BALL_SET_POS, Ioctl, Seen, device, registers, Calling,
                DriverTypeOK
  <2> QED
    BY <2>1
<1>4. CASE PosFails
  <2>1. /\ Seen = "x" /\ Seen' = "move" /\ Same /\ Kept
        /\ fails < MaxFails /\ fails' = fails + 1
    BY <1>4 DEF PosFails, Seen, vars, user, device, registers
  <2> QED
    BY <2>1 DEF prog!Next, prog!SetFails
<1>5. CASE InCall
  <2>1. Kept /\ fails' = IF at[hello] = "y" THEN 0 ELSE fails
    BY <1>5 DEF InCall
  <2>2. \/ Seen = "colour" /\ Seen' = "x" /\ BusWrite(0, 64) /\ fails' = fails
        \/ Seen = "x" /\ Seen' = "y" /\ BusWrite(1, x % 2^16) /\ fails' = fails
        \/ Seen = "y" /\ Seen' = "move" /\ BusWrite(2, y % 2^16) /\ fails' = 0
        \/ Seen' = Seen /\ UNCHANGED registers /\ fails' = fails
    BY <1>5, <2>1, CallStep DEF Seen
  <2>3. CASE Seen = "colour" /\ Seen' = "x" /\ BusWrite(0, 64) /\ fails' = fails
    BY <2>1, <2>3 DEF prog!Next, prog!SetBackground, BusWrite, prog!BusWrite, InRange,
                      prog!InRange
  <2>4. CASE Seen = "x" /\ Seen' = "y" /\ BusWrite(1, x % 2^16) /\ fails' = fails
    BY <2>1, <2>4 DEF prog!Next, prog!SetX, BusWrite, prog!BusWrite, InRange, prog!InRange
  <2>5. CASE Seen = "y" /\ Seen' = "move" /\ BusWrite(2, y % 2^16) /\ fails' = 0
    BY <2>1, <2>5 DEF prog!Next, prog!SetY, BusWrite, prog!BusWrite, InRange, prog!InRange
  <2>6. CASE Seen' = Seen /\ UNCHANGED registers /\ fails' = fails
    BY <2>1, <2>6 DEF registers
  <2> QED
    BY <2>2, <2>3, <2>4, <2>5, <2>6
<1>6. CASE MoveOn
  <2>1. /\ Seen = "move" /\ Same /\ Advance
        /\ Seen' = IF i + 1 < 10000 THEN "x" ELSE "ended"
    <3>1. /\ where = "move" /\ Advance
          /\ where' = IF i + 1 < 10000 THEN "pos" ELSE "ended"
          /\ UNCHANGED vars
      BY <1>6 DEF MoveOn
    <3>2. at[hello] = "idle"
      BY <3>1 DEF Calling, ColourSteps, PositionSteps
    <3>3. at' = at /\ Same
      BY <3>1 DEF vars, user, device, registers
    <3> QED
      BY <3>1, <3>2, <3>3 DEF Seen
  <2> QED
    BY <2>1 DEF prog!Next, prog!Move, Advance, prog!Advance, Turn, prog!Turn
<1>7. CASE Exit \/ UNCHANGED dvars
  <2>1. Seen' = Seen /\ Same /\ Kept /\ fails' = fails
    BY <1>7 DEF Exit, Close, dvars, vars, user, device, registers, Seen
  <2> QED
    BY <2>1
<1> QED
  BY <1>1, <1>2, <1>3, <1>4, <1>5, <1>6, <1>7 DEF DrivenNext

(* Two writes, or none, are all that Hello needs to know of the driver:    *)
(* hello.c on vga_ball.c behaves as Hello says, when it is the only user   *)
(* and the driver is loaded.                                               *)
THEOREM HelloImplemented == DrivenSpec => prog!Spec /\ ImplementsHello
<1>1. DrivenInit => Calling /\ prog!Init
  BY CallingInit DEF DrivenInit, prog!Init, Start, prog!Start, Seen, beige
<1>2. Calling /\ [DrivenNext]_dvars =>
        /\ Calling' /\ [prog!Next]_(prog!vars)
        /\ [where # "absent" => [prog!Next]_(prog!vars)]_dvars
  BY CallingStep, DrivenIsHello
<1> QED
  BY <1>1, <1>2, PTL DEF DrivenSpec, prog!Spec, ImplementsHello

(* What HelloProofs shows of Hello holds on the driver as well.            *)
LEMMA TakenOver ==
  DrivenSpec => []Follows /\ []Bounces /\ MovesSmoothly
<1>1. prog!Spec <=> proofs!Spec
  BY DEF prog!Spec, proofs!Spec, prog!Init, proofs!Init, prog!Start, proofs!Start,
         prog!Next, proofs!Next, prog!vars, proofs!vars, prog!registers,
         proofs!registers, prog!ball, proofs!ball, prog!OpenDevice, proofs!OpenDevice,
         prog!SetBackground, proofs!SetBackground, prog!SetX, proofs!SetX, prog!SetY,
         proofs!SetY, prog!SetFails, proofs!SetFails, prog!Move, proofs!Move,
         prog!Ended, proofs!Ended, prog!BusWrite, proofs!BusWrite, prog!InRange,
         proofs!InRange, prog!Advance, proofs!Advance, prog!Turn, proofs!Turn
<1>2. /\ proofs!Follows <=> prog!Follows
      /\ proofs!Bounces <=> prog!Bounces
  BY DEF prog!Follows, proofs!Follows, prog!Bounces, proofs!Bounces, prog!Reflected,
         proofs!Reflected
<1>3. proofs!MovesSmoothly <=> MovesSmoothly
  BY DEF MovesSmoothly, proofs!MovesSmoothly, prog!StaysClose, proofs!StaysClose,
         prog!Lag, proofs!Lag, prog!vars, proofs!vars, prog!registers,
         proofs!registers, prog!ball, proofs!ball
<1>4. /\ proofs!Spec => []proofs!Follows
      /\ proofs!Spec => []proofs!Bounces
      /\ proofs!Spec => proofs!MovesSmoothly
  BY proofs!FollowsCorrect, proofs!BouncesCorrect, proofs!SmoothCorrect, HelloAssumption
<1> QED
  BY <1>1, <1>2, <1>3, <1>4, HelloImplemented, PTL DEF Follows, Bounces

(* On the driver as well, the ball is where hello.c has put it after each  *)
(* call that works (set_ball_pos), but for the edges.                      *)
THEOREM FollowsOnDriver == DrivenSpec => []Follows
BY TakenOver, PTL

(* On the driver as well, all turns of the loop of hello.c throw the ball  *)
(* back at each edge once, whichever calls fail.                           *)
THEOREM BouncesOnDriver == DrivenSpec => []Bounces
BY TakenOver, PTL

(* On the driver as well, the ball on the screen never jumps further than  *)
(* the turns of hello.c since the last call that worked.                   *)
THEOREM SmoothOnDriver == DrivenSpec => MovesSmoothly
BY TakenOver, PTL
=============================================================================
