# Embedded Systems labs: a TLA+ verification project

The repository holds three labs for a DE1-SoC board.

* **Lab 1** (`src/lab1`, SystemVerilog) is a circuit that tabulates the lengths
  of Collatz sequences and lets the user page through them with four keys.
* **Lab 2** (`src/lab2`, C) is a chat client: a USB keyboard, an input line and a
  message area on a framebuffer, and a TCP connection. It has two threads.
* **Lab 3** (`src/lab3`, SystemVerilog and C) is a ball on a VGA screen: the
  circuit, a Linux driver for its three registers, a program that moves the ball.

This directory models all three, checks them with TLC on small instances (and at
full size where that is possible) and proves the central properties with TLAPS for
every instance.

## Inventory

| part | state | operations | modules |
| --- | --- | --- | --- |
| `collatz.sv` iterator | `dout`, `done` | load, iterate, rest | `Collatz`, on its bench `CollatzBench`, `Lab1Proofs` |
| `range.sv` | control registers, RAM, output register | restart, store, collect, count, wait; RAM port | `Range`, `Lab1Proofs` |
| `debouncer.sv` | two synchronisers, timer, output | agree, disagree | `Debounced` (contract), `Debouncer`, `ButtonProofs` |
| `button_press.sv` | counter, mode, pulse | press, count, fire, release | `ButtonPress`, `ButtonProofs` |
| `hex7seg.sv` | none | table | `Hex7seg`, `Lab1Proofs` |
| `lab1.sv` | `ready`, `start`, `start_index` | go, done, add, sub, reset | `Lab1`, `Lab1Proofs` |
| `keyboard.c` input line | buffer, length, cursor, screen row | insert, delete, clear, left, right | `TextEdit` (contract), `InputBuffer` |
| `keyboard.c` key handler | caps flag, write loop | one action per key, one per `write()` outcome | `Keyboard`, `KeyboardProofs` |
| `lab2.c` main loop | previous report, key and time of repeat | report, no report, second repeat check | `KeyLoop`, `KeyLoopProofs` |
| `display.c`, network thread | row, column, area, chunk being drawn | receive, newline, wrap, put, restart, return, disconnect | `Display`, `ChatProofs` |
| `lab2.c` start-up, both threads together | next call, connection, threads | one action per call, write, read, relay, close, SIGPIPE | `ChatClient`, `ChatProofs` |
| `fbputchar.c` | none | address arithmetic | `FrameBuffer`, `ChatProofs` |
| `vga_ball.sv` counters | `hcount`, `vcount` | tick, asynchronous reset | `VgaCounters` |
| `vga_ball.sv` registers and picture | colour, position | bus write, reset on the clock | `BallRegisters`, `VgaBall`, `VgaBallProofs`; composed with the software in `VgaBallDriverProofs`, `HelloProofs` |
| `vga_ball.c` driver | copies, resources, open files | each call of the probe and of remove, each access of an ioctl | `VgaBallDriver`, `HelloOnDriver`, `VgaBallDriverProofs` |
| `hello.c` | position, direction | open, colour, position (worked or failed), move, exit | `HelloLoop`, `Hello`, `HelloOnDriver`, `HelloProofs`, `VgaBallDriverProofs` |

How the parts interact: in Lab 1 everything moves on one clock; the keys reach
`lab1.sv` through debouncers, `lab1.sv` drives `range` with `go` and `start`, and
`range` drives the iterator with `cgo` and `n` and waits for its `done`. In Lab 2
the main thread polls the keyboard, edits the line, draws row 23 and writes to
the socket; the network thread reads the socket and draws rows 0 to 20. In Lab 3
`hello.c` calls the driver, the driver writes words to the circuit's registers, and
the circuit compares every pixel it scans with them.

What makes them hard: `go` may arrive on any edge of a run and overrides only some
of the assignments of that edge; keys, `go` and `done` meet on one edge; buttons
bounce; `write()` takes part of a line and then fails; the two directions of a
connection fill up; reports of the keyboard are missed, or come only on changes; a
message meets the end of a line, of the area, or both; the text meets the end of its
buffer; ioctls of several processes run at once, without a lock, while the module is
being loaded and removed; positions lie one past what the circuit accepts; the
circuit works in the narrowest widths that will do.

## Lab 1: the circuits

A step of every Lab 1 module is one rising edge of the clock. Unprimed variables
are the values before the edge, which is what the right-hand sides of
non-blocking assignments read. Where a block assigns a register more than once,
the last assignment wins, and the actions are written as the outcome of that
rule: `Restart` in `Range`, for example, overrides `running`, `n`, `num`, `din` and
`cgo` but not `we` and `done`, as in the source. Inputs are wires: the edge samples
them, and the same step gives them their next value. Inputs nobody else reads
(the add, sub and reset keys of `Lab1`) are choices inside the action.

`Debounced` is the contract between the buttons and the circuits: a level that
stays for `MinHold` samples. `Debouncer` is the circuit, and is proved to
implement the contract with `MinHold` equal to the number of values of its timer
(2^14 in the source). `Range` and `Lab1` are checked with the contract in place of
the circuit; `KeyedBoard` proves that the board with the circuit implements the one
with the contract. `Range` needs `MinHold >= 3`: the third sample of `go` clears a store
that the restart itself may have caused by finding the iterator's `done` still high.
`Lab1` needs 4 (`BoardAssumption`), as a key on the edge after `done` can override the
first load of `start`; both are far below 2^14.

The reference for the counts is a function `Length` on a set `Good` of numbers,
constrained by the recurrence of the Collatz sequence on unbounded numbers
(`RangeAssumption`). `Good` leaves out 0, whose sequence never ends, and 1, which the
iterator takes through 4 and 2. The MC modules compute both with
`CollatzReference`. `base` (the number a run began with), `age`, `past`, `down`,
`sampledSW` and `clash` (`go` was sampled on the edge that stores the last word)
are history variables: no action's guard reads them, except `age`, which is the
contract's.

## Lab 2: the chat client

`InputBuffer` has the C array with its terminator, length and cursor, and the row
`display_user_input` draws; its operators are the C functions. `Keyboard` adds the
caps flag and the write loop of Enter. A key may come whenever the main thread is
in its loop. Characters are a small set: a letter, its capital and the blank, which
is all that shift, caps lock and Tab tell apart. `TextEdit` is what an editor
promises, in terms of sequences; `EditsText` shows that the shifting loops of
`keyboard.c` implement it.

`KeyLoop` is the loop of `lab2.c` with the keyboard and the clock beside it.
`next_repeat_ms` is kept as the time until it, since the source only compares it with
the clock. A poll may bring a report or nothing (a timeout or an error), whatever the
keyboard does. The keyboard, an external part, lists the keys that are down in the
order of their presses, fills the report with the rollover code when there are
more than slots, and may be unplugged. The history variable `times` counts how often
each key that is down has been handled as new; the count begins again at an overfull
report, after which all keys look new once more.

`Display` draws a chunk as `display_message` does, a step per character. A chunk is
what one `read()` returns, up to its first `'\0'`, so that any cutting of messages by
TCP is included. The history variable `from` is the row the chunk (re)started on.

`ChatClient` extends `Display` to the whole program: `main` calls `fbopen`,
`openkeyboard`, `socket`, `connect` and `pthread_create` in turn and exits when one of
them fails, except the last, whose result `lab2.c` does not look at. From then on the
main thread sends lines and the network thread reads and draws. They share no
variable. They meet in the connection, whose directions hold a bounded number of
bytes, and in the server, which sends back what it reads and so stops reading when it
cannot send; both are external. They also meet on the screen: `FrameBuffer` is the
address arithmetic of `fbclear` and `fbputchar`. `OwnPixels` says of the character that
the network thread draws next that it is on cleared and mapped memory and shares no byte
with a character that is shown, nor with the rows of the main thread. `fbopen` does not
compare the resolution with the size of the text, so nothing is assumed of it either:
`Visible` are the places there is room for, and the property is about those.

## Lab 3: the ball

`VgaCounters` is `vga_counters` at its full size, 1600 by 525, with sync and blanking
decoded from single bits of the counters as in the source (`Bits`). `BallRegisters` is
the part of `vga_ball` the processor writes. `VgaBall` composes the two with the reset
line, which may rise and fall at any time between two edges: the counters are cleared
when it rises, the registers on the next edge that finds it up. It adds the picture:
`Diff` and `dist2` have the widths of the source's signals, and `DrawsDisk` compares the
colour of every place with the disk of radius 16 in plain integers.

`VgaBallDriver` puts the driver above the same registers. One step is one call of
`vga_ball_probe` or `vga_ball_remove`, or one access of an ioctl to a register or to
the driver's copies. The driver takes no lock, so steps of all processes interleave;
a colour is stored in two pieces and loaded in one, as in the compiled module. Every
call of the probe may fail. The kernel is external: it registers the device, lets a
module go only when none of its files is open, and ends a process that reaches for
unmapped registers (`Oops`). The history variables `early` (opened before the probe was
over) and `mixed` (which of colour and position overlapping calls have set, until a call
that is alone sets it again) mark the cases in which the source gives no guarantee.

`HelloLoop` has the variables of `main` of `hello.c` and a turn of its loop. `Hello` is
the program above the same registers: each call of `set_ball_pos` writes X, then Y, or
fails as a whole while the program goes on. `HelloOnDriver` takes the same calls through
`VgaBallDriver`, access by access. `hello.c` runs alone there, as the only user of a
driver that is loaded; in the behaviours without it (`where = "absent"`) any processes
use the driver and load and remove it. `Seen` maps it to `Hello`: a call is over for the
registers when its words are written, before the copies are.

## Runs

| run | shows | instance |
| --- | --- | --- |
| `collatz_board` | `PrintsSequence`, `Ends`: the iterator on its bench computes the sequence of each number, loses no bit, stops at the first 1 and ends | all of 2 .. 1278, every number 10 switches and 8 bits of index can give; registers of 29 bits |
| `buttons` | `Refines`, `NoBounce`, `Responds`: the debouncer keeps its contract and follows a button at rest; `PulsesWhenDue`: pulses on exactly the edges the comment of `button_press.sv` lists | timer of 4, hold 5, repeat 3, any bouncing input |
| `lab1` | `MemoryFilled`, `StoresLength`: with `go` at any edge, what is stored and what a finished run leaves are the lengths; `IndexTracks`, `ShowsLength`, `LoadsSwitches`, `ResultsComeUp`: keys, `go` and `done` in any combination | 3 words, switches 2 and 4 |
| `lab1_go_clash` | violated: `GoStartsFromSwitches` (see Findings) | as `lab1` |
| `lab1_decimal` | violated: `DrawsDecimal` (see Findings) | 3 words, the switches at 9, whose count is 20 |
| `keyboard` | `Terminated`, `EditsText`, `RowShowsLine`, `ClearsWhatWasSent` | a buffer of 5 and a row of 4, so that the window slides and Tab meets the end |
| `key_loop` | `HandledOnce`, `RepeatsInTime`, `ReleaseEnds`, `HeldRepeats` | 3 keys, one not repeatable, 2 slots, 3 keys down at a time, delay 2, interval 1 |
| `chat` | `LaidOut`, `NeverDrawsOver`, `ClearsOnlyWhenFull`, `FittingReturns`: what arrives is laid out whole and in order; `OwnPixels`; `WriteReturns`: the main thread does not hang in `write()` | 3 rows of 2, chunks of up to 4 characters, newlines included; lines of 2 bytes, 1 byte of room to the server, 4 from it; a screen of 33 x 160 with odd offsets and padded lines, a row too small for the text |
| `display_overlong` | violated: `EveryReturns` (see Findings) | 3 rows of 2, chunks of up to 5 |
| `vga` | `VisibleArea`, `SyncInTheDark`, `DrawsDisk`, `ScansInOrder` | the full field; writes of a colour, of the last column, of the first number past each edge and of a word that is not there, and resets, at any clock |
| `vga_hsync` | violated: `HSyncAsCommented` (see Findings) | as `vga` |
| `hello_on_driver` | `NothingLeft`, `UsesMapped`, `ShownWhole`, `CopiesAgree`: the driver under any calls; `ImplementsHello`, `Bounces`, `Follows`, `MovesSmoothly`: `hello.c` on it | 2 processes, 2 colours that differ in every byte, a position in the corner and the one past it, any number of loads and removals; all 10000 turns, up to 2 failing calls in a row, two places where the ball may be at the start |

`chat` and `vga` also check the type invariant of their modules: that nothing outside
the message area is drawn on, and that the ball's centre stays on the screen.

Why the bounds are enough. In `lab1` three words have a first, a middle, where a key
can move both ways, and a last one, and restarts come at every edge of a run. In
`keyboard` the line can be longer than the row, and each of the four blanks of a Tab
can be the one that does not fit. In `key_loop` two keys fit into a report and a
third makes it overfull or takes the place of either, and delay and interval differ.
In `chat` a chunk can begin on every row, wrap, end a line exactly at the margin and
overflow once; one direction of the connection is narrower than a line, so that
`write()` has to come back several times, and both can be full. In `hello_on_driver` two
processes are all that can meet on one register or copy, and the proofs cover more;
failures come at every place of the path, the edges included. In `vga` the ball moves
over columns only, to keep the run short; the proof of `DrawsDisk` covers every position.
Registers of
`lab1` are 64 values wide where a run's numbers stay below that; overflow of the real
width is the subject of `collatz_board`.

Deadlock is checked except where the program really stops: the bench ends, SIGPIPE
may end the program (`keyboard`), and the chat client exits or loses its connection
(`chat`, `display_overlong`).

## Fairness

* The circuits: the clock ticks (`WF` of the whole step). Nothing is assumed of
  buttons or switches.
* `KeyLoop`: time passes, the loop goes on (its poll has a timeout of 10 ms), and a
  change of the keyboard that lasts is reported in the end. Reports without a change
  are not assumed, as the comment at `lab2.c:168` has it.
* `Display`, `ChatClient`: both threads are scheduled (`WF`). The server serves all of
  its clients in turn, so that one whose bytes it can relay again and again is not
  passed over for ever (`SF` of `Relay`; weak fairness would not do, since others can
  fill the direction to this client in between). What others send, what the user
  types and when the connection breaks is open.

`Keyboard`, `VgaBall` and `HelloOnDriver` are checked for safety only.

## Proofs

TLAPS proves these for every value of the constants that the named assumptions
allow.

* `Lab1Proofs`, the range circuit: `TypeCorrect`, `MemoryCorrect` (`MemoryFilled`) and
  `StoresCorrect` (`StoresLength`), from `RangeAssumption`. `MemoryFilled` speaks of the
  end of a run only; the inductive invariant `IInv` says where a run is. For the number
  `base + num` the circuit is loading it, iterating (`din` plus the length of what is
  left is the length of the whole, plus one), has counted it, or is storing it, and the
  words below `num` are right. `Restarting` says what each further sample of `go` has
  put in order; it is what makes the first state of a run one of the four, whatever
  the interrupted run was doing.
* `Lab1Proofs`, the pace of a run: `AdvancesCorrect` (`RunAdvances`). `EdgesLeft` is how
  many edges the current number still needs until its count is stored, by the length of
  its sequence. Every edge without `go` takes exactly one off, the store goes on with the
  next number, and the last one ends the run. This is the measure behind
  `ResultsComeUp`; that the edges come is the fairness, and stays with TLC.
* `Lab1Proofs`, the iterator: `BenchCorrect` (`PrintsSequence`), when the bench is given
  numbers of `Good`. `Printing` says that what has been printed is a sequence of good
  numbers, each the Collatz step of the one before. That the 1277 start values of the
  board are good at 29 bits is a fact about these numbers, which the run
  `collatz_board` covers one by one.
* `Lab1Proofs`, the board: `BoardRunsRange` (`LabSpec` implies the `Spec` of range, so
  that the theorems above hold on the board), `IndexCorrect` (`IndexTracks`),
  `ShowsCorrect` (`ShowsLength`), `LoadsCorrect` (`LoadsSwitches`) and `DigitsCorrect`
  (`DrawsHex`: the displays draw the hexadecimal digits of their numbers), from `BoardAssumption` as well. `BoardInv` adds `Tracking` to `IInv`
  for histories without a clash: `done` is up for one edge, before the keys are live; a
  `go` that meets live keys is at its first or second sample, so that its later samples
  override whatever a key did; from the fourth on it has loaded the switches. That is
  where `MinHold >= 4` is used. `Digits` goes through the sixteen lines of the table,
  segment by segment; `LowDigits` says that the 12 bits the displays are given keep the
  three digits.
* `Lab1Proofs`, the board with its debouncer: `KeyedBoard` (`KeyedSpec` implies
  `LabSpec`, so that all of the above holds of it). `KeyedSpec` puts the flip-flops of
  `debouncer.sv` behind `go`, with any bouncing button. The invariant `Behind` says that
  the timer never runs ahead of the samples of the present level.
* `ButtonProofs`: `RefinesDebounced` (`Refines`), `NoBounceCorrect`,
  `RespondsCorrect`, from `TicksAssumption`. The invariant `Counting` relates the timer
  to the past: the last `timer` synchronised samples differ from the output, and the one
  before them does not. `PulsesCorrect` (`PulsesWhenDue`), from `PressAssumption`: the
  invariant `Pressing` gives counter, mode and pulse for each number of edges that have
  sampled a press. `PressDebounced` carries the debouncer's three properties over to the
  composition, whose steps are its steps.
* `KeyLoopProofs`: `HandledCorrect` (`HandledOnce`) and `RepeatsCorrect`
  (`RepeatsInTime`), from `LoopAssumption`, for any keys, slots and times. `HandledInv`
  says that a key that was handled is still down and in the report the next one is
  compared with. `TimeInv` says that what is left to wait makes up for what has not
  passed, since the last repeat and since the key was new; it needs the interval not to
  be longer than the delay (80 and 500 ms in the source). `Report` is the fact about the
  external keyboard both rest on: a report that is not overfull lists the keys that are
  down.
* `KeyLoopProofs`, what the two liveness properties rest on: `FirstRepeatsCorrect` (the
  key that repeats is the first of the last report), `UpEndsCorrect` (`UpEnds`: a key
  that is up is never taken up, the next report ends it, and while it still repeats that
  report differs from the last, so that the keyboard owes it) and `NotPutOffCorrect`
  (`NotPutOff`: while a key is held alone, nothing makes the time until its repeat
  longer but the repeat).
* `ChatProofs`: `TypeCorrect`, `LaidOutCorrect` (`LaidOut`), `NeverDrawsOverCorrect` and
  `ClearsCorrect` (`ClearsOnlyWhenFull`), of the whole client and, as `DisplayCorrect`, of
  the network thread by itself; from `DisplayAssumption`. `BlankAhead` says that from the
  current place on, in reading order, the area is blank. `Layout` says that the current
  place is the one after the characters drawn. The reference layout counts over the
  characters of a chunk; `ColumnNext`, `NewlinesNext`, `FoldsNext` and `BreaksNext` say
  how each count changes from one character to the next, so that the induction over a
  chunk is the one over the steps that draw it. `ChatIsDisplay` shows that a step of the
  client is one of the thread's, ends the thread, or leaves it alone; it needs `Starting`,
  that the thread has read nothing before it was created. `ClientRunsDisplay` states it
  of whole behaviours.
* `ChatProofs`, whether the threads go on: `RestartsOnce` (`AtMostOneRestart`: a chunk
  that fits goes on by a character at each turn, and is begun again only from a row
  below the top, so at most once); `OverlongNeverReturns` (`OverlongStays`: a chunk of
  more rows than the area has is drawn until the program ends, for every size of both,
  the second finding below without its bounds); `NoCircularWait` (`SomebodyMoves`: while
  `write()` waits the server can relay, or a created network thread is drawing or has
  bytes to read), for connections that hold at least one byte each way. `Overflows` and
  `ReturnRow` compare the rows of a chunk with the area. `Connection` says that a thread
  that was created ends only after the server has closed.
* `ChatProofs`, the screen: `PixelsCorrect` (`OwnPixels`) of the whole client, from
  `ScreenAssumption` (a line of memory holds the visible pixels of a line, and the mapped
  memory all visible lines: what the kernel says of a screen) and `ChatAssumption` (the
  message area is part of the text: 20 < 24 rows, 64 columns of 64). The arithmetic is
  that a pixel's address determines its place; that the place drawn next is not one that
  is taken comes from the invariant of the message area.
* `KeyboardProofs`: `EditsTextCorrect` (the refinement `EditsText`),
  `TerminatedCorrect`, `RowCorrect` (`RowShowsLine`) and `ClearsCorrect`
  (`ClearsWhatWasSent`), from `BufferAssumption` and `KeysAssumption`. The invariant
  `Good` says that the characters before the terminator fill the line. `Inserted` and
  `Deleted` say place by place what the two shifting loops do, `Inserted` for any
  number of characters so that the four of a Tab compose; `Splice` and `Cut` turn that
  into the concatenations of `TextEdit`. `Taken` says that the bytes accepted are the
  first `sent` of the line, or that no more will be: a connection that is lost does
  not come back.
* `VgaBallProofs`: `VgaTypeCorrect`, `VisibleAreaCorrect`, `SyncCorrect`,
  `DrawsDiskCorrect`, `ScansCorrect`, for every set of words written
  (`WritesAssumption`). The ranges of counters and registers are inductive by
  themselves, and the rest is arithmetic on them; `ScansCorrect` needs `HeldInReset` too,
  that the counters are 0 as long as reset is up: `Diff` is exact for numbers of 10
  bits, the squares fit, and the bits that are tested select the intervals.
  What one write of the bus does, for every word, is a lemma here and in the two below.
* `HelloProofs`: `BouncesCorrect`, `HelloTypeCorrect`, `FollowsCorrect`,
  `SmoothCorrect` (`MovesSmoothly`), from `HelloAssumption`, for every pattern of up to
  99 failures in a row and every place the ball was left at. `Course` ties position
  and direction to the number of turns, two straight lines that are reflected.
  `MovesSmoothly` needs `Smooth`: the circuit is behind the program by at most the
  steps since the last call that worked, or that call was the one past the far edge,
  which the circuit ignores, and the ball rests close to this edge. `Lag` is that
  distance for each call. The bound of 99
  keeps the first call that works before the first edge.
* `HelloProofs`, the program and the circuit: `ShowsBallCorrect` (`ShowsBall`). `ShowSpec`
  runs `Hello` on the clock of `VgaBall`, from any place of the scan. After a call that
  works, the picture is the disk around the position `hello.c` has computed, until it is
  moved. The lemmas of `VgaBallProofs` are used through `INSTANCE`.
* `VgaBallDriverProofs`: `NothingLeftCorrect`, `UsesMappedCorrect`,
  `ShownWholeCorrect`, `CopiesAgreeCorrect`, for any number of processes, any colours and
  any positions (`RequestsAssumption`). `Held` lists what the driver holds at each step
  of its life, and that a file opened after the probe keeps the module loaded. `Asked`
  says that an ioctl works on its own request. `Quiet` describes each of colour and
  position while no calls for it have overlapped (`ColourGood`, `PositionGood`): one call
  at most is writing it, has done the steps before its place, and when there is none the
  copy is true. A call that begins alone establishes it again, whatever was there before.
* `VgaBallDriverProofs`, the driver and the circuit: `DriverDrivesCircuit` (`SystemSpec`,
  the driver and its callers on the clock of the circuit, implies the specification of
  the circuit: `StepWrites` discharges `WritesAssumption`) and `ScreenCorrect`
  (`ScreenShows`), from there and from `DrawsDiskCorrect`, `ShownWholeCorrect` and
  `CopiesAgreeCorrect`: a visible pixel is of the ball or of a colour somebody asked
  for; and unless calls have overlapped, with a position on the screen, it is what
  the driver's copies say. The circuit is not reset meanwhile.
* `VgaBallDriverProofs`, the program on the driver: `HelloImplemented`. `DrivenSpec`, the
  behaviours of `HelloOnDriver` with `hello.c`, implements `Hello` with the refinement
  mapping `Seen`, step by step (`ImplementsHello`) and as a whole. `Calling` says that the
  driver works on what `main` has asked for. `FollowsOnDriver`, `BouncesOnDriver`
  and `SmoothOnDriver` take the three properties over from `HelloProofs`. The properties of the driver are
  proved for `Spec`, the behaviours without `hello.c`, which include calls with any
  position and colour.

`RunAdvances`, `UpEnds`, `NotPutOff`, `AtMostOneRestart`, `OverlongStays`,
`SomebodyMoves`, `FirstRepeats` and `KeyedSpec => LabSpec` were checked by TLC on the
instances of their runs before they were proved. `SystemSpec` and `ShowSpec` multiply the states of
the software by the 840000 places of the scan and are proved only.

Only model-checked: the liveness properties `Ends`, `ResultsComeUp`, `ReleaseEnds`,
`HeldRepeats`, `FittingReturns` and `WriteReturns` (fairness and `ENABLED` are out of the
prover's reach); the theorems named above prove the safety part of the argument for the
last five, step by step, and leave the induction over a measure to TLC. The theorems
about `range` and the bench take the lengths as a function that obeys the recurrence
(`RangeAssumption`); that the board's numbers have one at the width of the registers is
what `collatz_board` shows. Every other property of a passing run is the subject of a
theorem.

## Findings

* **`go` on the last word** (`lab1_go_clash`). `range.sv` clears `done` only while
  it is idle. When `go` arrives on the edge that stores the last word, `done` stays up
  through the next run; `lab1.sv` lets `done` override `go`, so later runs start from 0,
  whose sequence never ends. `IndexTracks`, `ShowsLength` and `LoadsSwitches` hold in
  every history without this event.
* **Decimal digits** (`lab1_decimal`). The comments at `lab1.sv:55`, 59 and 70 say that
  number and count are shown in decimal; the displays are given groups of four bits, so
  that they are shown in hexadecimal, a count of 20 as 014. `DigitsCorrect` proves what
  they do show.
* **A chunk longer than the area** (`display_overlong`). `display_message` begins it
  again each time it runs out of rows and never returns. `WriteReturns` shows what
  follows for the rest of the program: this is one of the two ways in which the main
  thread can hang in `write()`. The other is a `pthread_create` that fails unnoticed.
* **Horizontal sync** (`vga_hsync`). The comment says 0x520 to 0x5DF, and the
  parameters ask for a front porch of 32; the bits that are decoded give 0x500 to
  0x5DF, a pulse of 224 clocks without a front porch.

Seen while modelling, and no run is spent on them: a message that ends on the last row
is cleared before `display_message` returns (`display.c:74`, where lines 28 to 30 speak
of displaying it); after a report of more keys than it has slots for, keys that stayed
down are typed once more (`lab2.c:131`), and `HandledOnce` says no more than that;
`vga_ball_probe` drops what `misc_register` returns (`vga_ball.c:138` and 141), so that a
module can be loaded without a device; `hello.c:65` prints that the ball was placed at
(320, 240) after it has moved 10000 times; a write between two lines of the picture
tears the frame; `collatz.sv:5` says `done` is true when `dout` reaches 1, but it is not
for a sequence that is loaded with 1; `lab1.sv:50` calls the displayed number the one
whose count is shown, but the switches may have moved since the run; a key that is down
when the keyboard is unplugged repeats for ever; without a network thread, or on a screen
smaller than the text, the client goes on; a file opened before the probe is over reaches
unmapped registers (`Oops`).

## Not modelled

* `usbkeyboard.c`: one search through libusb's descriptors, in straight-line library
  calls that leave no state; it is one step of the start-up in `ChatClient`.
* The font and the colours of `fbputchar.c`, the tables of characters of `keyboard.c`
  (parameters of `Keyboard`), messages to the terminal.
* `range.cpp` and `hex7seg.cpp` beyond what `Range`'s environment and `DigitsCorrect`
  include.
* `soc_system_top.sv`, the Qsys system, its handoff files and build scripts: wiring and
  generated code without behaviour of its own.
* `src/lab3/linux-headers-4.19.0`: a copy of the kernel's headers and build files that
  the driver is compiled against. It is nearly all of the repository by size, over a
  million lines against some two thousand of the labs' own, and no part of what the
  labs do: the share of the repository's lines that the modules translate is therefore
  tiny, although every hand-written source file with state is modelled.
