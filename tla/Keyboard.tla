------------------------------ MODULE Keyboard ------------------------------
(***************************************************************************)
(* handle_keypress of lab2/keyboard.c: what one key does to the caps flag, *)
(* the input line and the connection to the chat server.  Any key may come *)
(* at any time, except while the handler of Enter is in its write loop:    *)
(* the main thread is then in write(), one step per call.                  *)
(*                                                                         *)
(* The connection is external: while it is up, write() accepts some of the *)
(* bytes it is offered; once it is reset, write() fails, and as SIGPIPE is *)
(* left at its default it may also end the program.                        *)
(***************************************************************************)
EXTENDS InputBuffer

CONSTANTS
  Letters, Others,      \* keys with a character: a .. z, and the rest
  Unshifted, Shifted    \* the two lookup tables, on Letters \cup Others

ASSUME KeysAssumption ==
  /\ Letters \cap Others = {}
  /\ Unshifted \in [Letters \cup Others -> Char]
  /\ Shifted \in [Letters \cup Others -> Char]

VARIABLES
  is_caps_on,
  thread,               \* main thread: "loop", "writing" or "killed"
  sent,                 \* the counter of send_input_buffer_to_server
  connected,
  wire                  \* bytes accepted since the line was last cleared

kvars == <<input, row, is_caps_on, thread, sent, connected, wire>>

KeyboardInit ==
  /\ InputInit
  /\ is_caps_on = FALSE /\ thread = "loop" /\ sent = 0
  /\ connected = TRUE /\ wire = <<>>

KeyArrives == thread = "loop"
NoSending  == UNCHANGED <<thread, sent, connected, wire>>

CapsLock ==
  /\ KeyArrives
  /\ is_caps_on' = ~is_caps_on
  /\ NoSending /\ UNCHANGED <<input, row>>

Backspace ==
  /\ KeyArrives
  /\ Becomes(DeleteChar(input))
  /\ NoSending /\ UNCHANGED is_caps_on

(* Four blanks, or as many as there is room for.                           *)
Tab ==
  LET Blank(s) == AddChar(s, Space)
  IN /\ KeyArrives
     /\ Becomes(Blank(Blank(Blank(Blank(input)))))
     /\ NoSending /\ UNCHANGED is_caps_on

Left ==
  /\ KeyArrives
  /\ Becomes(MoveLeft(input))
  /\ NoSending /\ UNCHANGED is_caps_on

Right ==
  /\ KeyArrives
  /\ Becomes(MoveRight(input))
  /\ NoSending /\ UNCHANGED is_caps_on

(* Escape, keys without a character, and Enter on an empty line.           *)
Ignored == KeyArrives /\ UNCHANGED kvars

(* keycode_to_ascii: caps lock acts on letters only.                       *)
Ascii(key, shift) ==
  IF (key \in Letters /\ shift # is_caps_on) \/ (key \in Others /\ shift)
  THEN Shifted[key] ELSE Unshifted[key]

Character(key, shift) ==
  /\ KeyArrives
  /\ Becomes(AddChar(input, Ascii(key, shift)))
  /\ NoSending /\ UNCHANGED is_caps_on

Enter ==
  /\ KeyArrives /\ input.length > 0
  /\ thread' = "writing" /\ sent' = 0
  /\ UNCHANGED <<input, row, is_caps_on, connected, wire>>

(* n bytes of the buffer.                                                  *)
Bytes(from, n) == [i \in 1 .. n |-> input.buffer[from + i - 1]]

(* A bug to be caught: every write starts at the beginning of the buffer.  *)
WriteAgain(n) ==
  /\ thread = "writing" /\ connected /\ sent < input.length
  /\ n \in 1 .. input.length - sent
  /\ wire' = wire \o Bytes(0, n) /\ sent' = sent + n
  /\ UNCHANGED <<input, row, is_caps_on, thread, connected>>

(* write() takes the first n of the bytes that are left.                   *)
Write(n) ==
  /\ thread = "writing" /\ connected /\ sent < input.length
  /\ n \in 1 .. input.length - sent
  /\ wire' = wire \o Bytes(sent, n) /\ sent' = sent + n
  /\ UNCHANGED <<input, row, is_caps_on, thread, connected>>

(* write() returns -1: the line is kept.                                   *)
WriteFails ==
  /\ thread = "writing" /\ ~connected /\ sent < input.length
  /\ thread' = "loop"
  /\ UNCHANGED <<input, row, is_caps_on, sent, connected, wire>>

(* SIGPIPE ends the program.                                               *)
Killed ==
  /\ thread = "writing" /\ ~connected /\ sent < input.length
  /\ thread' = "killed"
  /\ UNCHANGED <<input, row, is_caps_on, sent, connected, wire>>

AllSent == sent >= input.length

Sent ==
  /\ thread = "writing" /\ AllSent
  /\ Becomes(Cleared(input))
  /\ thread' = "loop" /\ wire' = <<>>
  /\ UNCHANGED <<is_caps_on, sent, connected>>

(* The server or the network ends the connection.                          *)
Reset == connected /\ connected' = FALSE
         /\ UNCHANGED <<input, row, is_caps_on, thread, sent, wire>>

HandleKeypress ==
  \/ CapsLock \/ Backspace \/ Tab \/ Left \/ Right \/ Enter \/ Ignored
  \/ \E key \in Letters \cup Others, shift \in BOOLEAN : Character(key, shift)

SendLoop == (\E n \in Index : Write(n)) \/ WriteFails \/ Killed \/ Sent

KeyboardNext == HandleKeypress \/ SendLoop \/ Reset

KeyboardSpec == KeyboardInit /\ [][KeyboardNext]_kvars

-----------------------------------------------------------------------------
(* Whatever keys, failures and partial writes: the line is a text edited   *)
(* at a cursor (the shifting loops of keyboard.c lose and double nothing). *)
T == INSTANCE TextEdit
       WITH text <- Text, cursor <- input.cursor,
            MaxLength <- INPUT_BUFFER_SIZE - 1

EditsText == T!Spec

(* Enter clears the line only when each of its characters has been         *)
(* accepted once and in order, over any number of partial writes.          *)
ClearsWhatWasSent ==
  [][thread = "writing" /\ input' # input => wire = Text]_kvars
=============================================================================
