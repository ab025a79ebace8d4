----------------------------- MODULE ChatClient -----------------------------
(***************************************************************************)
(* The chat client as a whole: main of lab2/lab2.c starts it up and then   *)
(* sends lines (Keyboard has the details), the network thread draws what   *)
(* arrives (Display).  The threads share no variable; they meet in the     *)
(* connection, whose two directions hold a bounded number of bytes, and in *)
(* the server, which sends back what it reads and so stops reading when it *)
(* cannot send.  Both are external.  TCP does not keep messages apart:     *)
(* read() returns any number of the bytes that wait, whatever they are.    *)
(***************************************************************************)
EXTENDS Display, FrameBuffer

CONSTANTS
  LineSize,             \* INPUT_BUFFER_SIZE - 1
  UpSize, DownSize      \* what the connection holds in each direction

(* The message area is a part of the screen: rows 0 .. 20 of 24, and all   *)
(* of its 64 columns, in the source.                                       *)
ASSUME ChatAssumption ==
  /\ LineSize \in Nat /\ UpSize \in Nat /\ DownSize \in Nat
  /\ MSG_AREA_BOTTOM < Rows /\ MSG_AREA_COLS <= Cols

VARIABLES
  main,                 \* the next call of start-up, "loop", "writing", "exited"
  unsent,               \* bytes of the line that write() has not taken yet
  up, down,             \* bytes on the way to the server, and from it
  peer,                 \* the server's end: "open" or "closed"
  created               \* pthread_create has worked

link == <<up, down, peer>>
cvars == <<vars, main, unsent, link, created>>

ChatInit ==
  /\ Init /\ main = "fbopen" /\ unsent = 0 /\ up = 0 /\ down = 0
  /\ peer = "open" /\ created = FALSE

(* exit() and SIGPIPE end both threads.                                    *)
Exit == main' = "exited" /\ thread' = "ended" /\ UNCHANGED <<msg, p, area, from>>

After ==
  [fbopen |-> "openkeyboard", openkeyboard |-> "socket", socket |-> "connect",
   connect |-> "pthread_create"]

(* Each call of the start-up works, or the program says so and exits.      *)
StartUp ==
  /\ main \in DOMAIN After
  /\ (main' = After[main] /\ UNCHANGED vars) \/ Exit
  /\ UNCHANGED <<unsent, link, created>>

(* What pthread_create returns is not looked at: without a network thread  *)
(* the program goes on as well.                                            *)
CreateThread ==
  /\ main = "pthread_create" /\ main' = "loop"
  /\ created' \in BOOLEAN /\ thread' = IF created' THEN "reading" ELSE "ended"
  /\ UNCHANGED <<msg, p, area, from, unsent, link>>

Running == main \in {"loop", "writing"}

-----------------------------------------------------------------------------
Enter ==
  /\ main = "loop" /\ main' = "writing" /\ unsent' \in 1 .. LineSize
  /\ UNCHANGED <<vars, link, created>>

(* write() blocks while there is no room; it takes what there is room for. *)
Write ==
  /\ main = "writing" /\ unsent > 0 /\ up < UpSize
  /\ \E n \in 1 .. unsent : up + n <= UpSize /\ unsent' = unsent - n /\ up' = up + n
  /\ UNCHANGED <<vars, main, down, peer, created>>

(* The connection is gone: the bytes vanish, write() fails, or SIGPIPE.    *)
WriteGone ==
  /\ main = "writing" /\ unsent > 0 /\ peer = "closed"
  /\ \/ unsent' = 0 /\ UNCHANGED <<vars, main>>
     \/ main' = "loop" /\ unsent' = 0 /\ UNCHANGED vars
     \/ Exit /\ UNCHANGED unsent
  /\ UNCHANGED <<link, created>>

Sent ==
  /\ main = "writing" /\ unsent = 0 /\ main' = "loop"
  /\ UNCHANGED <<vars, unsent, link, created>>

-----------------------------------------------------------------------------
(* The server reads one byte and sends it to everybody.                    *)
Relay ==
  /\ peer = "open" /\ up > 0 /\ down < DownSize
  /\ up' = up - 1 /\ down' = down + 1
  /\ UNCHANGED <<vars, main, unsent, peer, created>>

(* Somebody else has said something.                                       *)
Post ==
  /\ peer = "open" /\ Running /\ down < DownSize /\ down' = down + 1
  /\ UNCHANGED <<vars, main, unsent, up, peer, created>>

CloseConnection ==
  /\ peer = "open" /\ Running /\ peer' = "closed"
  /\ UNCHANGED <<vars, main, unsent, up, down, created>>

-----------------------------------------------------------------------------
(* A bug to be caught: one lock for sending and receiving.                 *)
ReadChunkLocked ==
  /\ main = "loop"
  /\ \E n \in 1 .. ChunkSize, m \in Chunks :
       n <= down /\ Len(m) <= n /\ Receive(m) /\ down' = down - n
  /\ UNCHANGED <<main, unsent, up, peer, created>>

(* read() takes n bytes; a '\0' among them hides the ones after it.        *)
ReadChunk ==
  /\ Running
  /\ \E n \in 1 .. ChunkSize, m \in Chunks :
       n <= down /\ Len(m) <= n /\ Receive(m) /\ down' = down - n
  /\ UNCHANGED <<main, unsent, up, peer, created>>

ReadEnd ==
  /\ Running /\ peer = "closed" /\ down = 0 /\ Disconnect
  /\ UNCHANGED <<main, unsent, link, created>>

DrawStep == Draw /\ UNCHANGED <<main, unsent, link, created>>

NetworkThread == ReadChunk \/ ReadEnd \/ DrawStep
MainThread == Write \/ WriteGone \/ Sent

ChatNext ==
  \/ StartUp \/ CreateThread \/ Enter \/ MainThread \/ NetworkThread
  \/ Relay \/ Post \/ CloseConnection

(* Both threads are scheduled, and the server serves each of its clients   *)
(* in turn: one whose bytes it can relay again and again is not passed     *)
(* over for ever.                                                          *)
ChatSpec ==
  /\ ChatInit /\ [][ChatNext]_cvars
  /\ WF_cvars(MainThread) /\ WF_cvars(NetworkThread) /\ SF_cvars(Relay)

-----------------------------------------------------------------------------
(* What must not be drawn over: the characters that are shown, and the     *)
(* rows below the area, which the main thread draws on without a lock.     *)
Taken == {q \in Row \X Col : screen[q] # Blank} \cup
         {q \in Places : q[1] > MSG_AREA_BOTTOM}

(* The character the network thread draws next spoils no pixel of another  *)
(* one nor of a row of the main thread, and stays on cleared and mapped    *)
(* memory, whatever the resolution, the offsets and the line length of     *)
(* fbputchar.c: as far as the resolution has room for the places.          *)
OwnPixels ==
  Puts /\ Spot \in Visible =>
    /\ Spot \in Inside
    /\ \A q \in Taken \cap Visible : Apart[Spot][q]

(* The main thread does not hang in write(), which would leave the program *)
(* deaf to every key: the network thread goes on reading meanwhile, so the *)
(* two directions of the connection do not stay full.  They do when there  *)
(* is no network thread (lab2.c:119 does not look), or when it has been    *)
(* given a chunk that display_message does not return from.                *)
WriteReturns ==
  main = "writing" ~> (main # "writing" \/ ~created \/ AllTurns > MSG_AREA_BOTTOM)
=============================================================================
