------------------------------ MODULE KeyLoop ------------------------------
(***************************************************************************)
(* The main loop of lab2/lab2.c: poll the USB keyboard, handle the keys    *)
(* that are new in its report, repeat the key that is held.  The keyboard  *)
(* and the clock run beside the loop; the loop takes one step for the poll *)
(* and what follows from a report, and one for the second repeat check.    *)
(* What the handled keys do is the subject of Keyboard.                    *)
(*                                                                         *)
(* next_repeat_ms is kept as the time that is still to pass until it, the  *)
(* only thing the source asks of it (0: it has passed).                    *)
(*                                                                         *)
(* The keyboard is external: it lists the keys that are down in the order  *)
(* they were pressed, and fills its report with Rollover when there are    *)
(* more than it has slots for.  It may be unplugged: from then on every    *)
(* transfer fails, and the loop goes on.                                   *)
(***************************************************************************)
EXTENDS Integers, Sequences

CONSTANTS
  Keys, Repeatable,     \* keycodes, and those is_repeatable_key accepts
  Rollover,             \* the keycode of an overfull report
  Mods,                 \* states of the modifier keys
  Slots,                \* keycodes in a report: 6 in the source
  MaxHeld,              \* bound: keys that are down at a time
  DELAY, INTERVAL       \* 500 ms and 80 ms in the source

None == "none"          \* keycode 0

ASSUME LoopAssumption ==
  /\ Repeatable \subseteq Keys /\ Rollover \notin Keys \cup {None}
  /\ None \notin Keys
  /\ {Slots, MaxHeld, DELAY, INTERVAL} \subseteq Nat \ {0}
  /\ INTERVAL <= DELAY

VARIABLES
  held, modifiers, plugged,           \* the keyboard: keys down, in order
  at,                                 \* where the loop is
  previous_packet,                    \* keycodes of the last report
  repeat_keycode, repeat_modifiers,
  wait,                               \* next_repeat_ms - now
  times,                              \* history: handlings, see HandledOnce
  sinceFirst, sinceRepeat             \* history: time since a handling

kbd  == <<held, modifiers, plugged>>
rep  == <<repeat_keycode, repeat_modifiers, wait>>
hist == <<times, sinceFirst, sinceRepeat>>
vars == <<kbd, at, previous_packet, rep, hist>>

Slot == 1 .. Slots

Init ==
  /\ held = <<>> /\ modifiers \in Mods /\ plugged = TRUE
  /\ at = "poll"
  /\ previous_packet = [i \in Slot |-> None]
  /\ repeat_keycode = None /\ repeat_modifiers \in Mods /\ wait = 0
  /\ times = [k \in Keys |-> 0]
  /\ sinceFirst = [k \in Keys |-> DELAY] /\ sinceRepeat = INTERVAL

-----------------------------------------------------------------------------
(* The keyboard and the clock.                                             *)
Down == {held[i] : i \in 1 .. Len(held)}

Press(k) ==
  /\ plugged /\ k \notin Down /\ Len(held) < MaxHeld
  /\ held' = Append(held, k)
  /\ UNCHANGED <<modifiers, plugged, at, previous_packet, rep, hist>>

Without(s, i) == [j \in 1 .. Len(s) - 1 |-> IF j < i THEN s[j] ELSE s[j + 1]]

Release(k) ==
  /\ \E i \in 1 .. Len(held) : held[i] = k /\ held' = Without(held, i)
  /\ times' = [times EXCEPT ![k] = 0]
  /\ UNCHANGED <<modifiers, plugged, at, previous_packet, rep, sinceFirst,
                 sinceRepeat>>

Modify == /\ plugged /\ modifiers' \in Mods \ {modifiers}
          /\ UNCHANGED <<held, plugged, at, previous_packet, rep, hist>>

Unplug == /\ plugged /\ plugged' = FALSE /\ held' = <<>>
          /\ times' = [k \in Keys |-> 0]
          /\ UNCHANGED <<modifiers, at, previous_packet, rep, sinceFirst,
                         sinceRepeat>>

Clock ==
  LET Older(t, limit) == IF t < limit THEN t + 1 ELSE t
  IN /\ wait' = IF wait > 0 THEN wait - 1 ELSE 0
     /\ sinceFirst' = [k \in Keys |-> Older(sinceFirst[k], DELAY)]
     /\ sinceRepeat' = Older(sinceRepeat, INTERVAL)
     /\ UNCHANGED <<kbd, at, previous_packet, repeat_keycode, repeat_modifiers,
                    times>>

packet ==
  [i \in Slot |-> IF Len(held) > Slots THEN Rollover
                  ELSE IF i <= Len(held) THEN held[i] ELSE None]

-----------------------------------------------------------------------------
(* A bug to be caught: only the first slot of the old report is looked at. *)
IsNewFirst(k) == k # None /\ previous_packet[1] # k

(* is_new_keypress                                                         *)
IsNew(k) == k # None /\ \A i \in Slot : previous_packet[i] # k

(* is_repeatable_key: anything but Enter, Escape and Caps Lock.            *)
MayRepeat(k) == k \in Repeatable \cup {Rollover}

(* The first keycode of the report that is not 0.                          *)
HeldKey ==
  IF \A i \in Slot : packet[i] = None THEN None
  ELSE packet[CHOOSE i \in Slot :
                packet[i] # None /\ \A j \in 1 .. i - 1 : packet[j] = None]

HandleNew ==
  LET new == {k \in Keys : \E i \in Slot : packet[i] = k /\ IsNew(k)}
  IN /\ times' = [k \in Keys |-> IF Len(held) > Slots THEN 0
                                 ELSE IF k \in new THEN times[k] + 1 ELSE times[k]]
     /\ sinceFirst' = [k \in Keys |-> IF k \in new THEN 0 ELSE sinceFirst[k]]

(* A bug to be caught: the last key goes on repeating.                     *)
AllUpRepeating == HeldKey = None /\ UNCHANGED <<rep, sinceRepeat>>

(* No key is down: stop repeating.                                         *)
AllUp == HeldKey = None /\ repeat_keycode' = None
         /\ UNCHANGED <<repeat_modifiers, wait, sinceRepeat>>

(* A bug to be caught: every report starts the delay again.                *)
ChangedAlways == HeldKey # None

Changed == HeldKey # repeat_keycode \/ modifiers # repeat_modifiers

(* Another key, or other modifiers: wait for the long time.                *)
OtherKey ==
  /\ HeldKey # None /\ Changed
  /\ repeat_keycode' = HeldKey /\ repeat_modifiers' = modifiers /\ wait' = DELAY
  /\ UNCHANGED sinceRepeat

(* A bug to be caught: the interval is too short.                          *)
RepeatKeySoon ==
  /\ MayRepeat(repeat_keycode) /\ wait = 0
  /\ wait' = INTERVAL - 1 /\ sinceRepeat' = 0
  /\ UNCHANGED <<repeat_keycode, repeat_modifiers>>

(* Handle the held key once more and set the time of the next repeat.      *)
RepeatKey ==
  /\ MayRepeat(repeat_keycode) /\ wait = 0
  /\ wait' = INTERVAL /\ sinceRepeat' = 0
  /\ UNCHANGED <<repeat_keycode, repeat_modifiers>>

SameKey ==
  /\ HeldKey # None /\ ~Changed
  /\ RepeatKey \/ (~(MayRepeat(HeldKey) /\ wait = 0) /\ UNCHANGED <<rep, sinceRepeat>>)

(* A report arrives.                                                       *)
Received ==
  /\ at = "poll" /\ plugged /\ at' = "repeat"
  /\ HandleNew
  /\ AllUp \/ OtherKey \/ SameKey
  /\ previous_packet' = packet
  /\ UNCHANGED kbd

(* The transfer times out or fails.                                        *)
NotReceived ==
  /\ at = "poll" /\ at' = "repeat"
  /\ UNCHANGED <<kbd, previous_packet, rep, hist>>

(* The check that runs without a report.                                   *)
RepeatCheck ==
  /\ at = "repeat" /\ at' = "poll"
  /\ \/ RepeatKey
     \/ ~(MayRepeat(repeat_keycode) /\ wait = 0) /\ UNCHANGED <<rep, sinceRepeat>>
  /\ UNCHANGED <<kbd, previous_packet, times, sinceFirst>>

Loop == Received \/ NotReceived \/ RepeatCheck

Next ==
  \/ \E k \in Keys : Press(k) \/ Release(k)
  \/ Modify \/ Unplug \/ Clock \/ Loop

(* Time passes, the loop never ends, and a change that lasts is reported   *)
(* in the end while the keyboard is plugged in; keyboards that report      *)
(* nothing but changes are included.                                       *)
Spec ==
  /\ Init /\ [][Next]_vars
  /\ WF_vars(Clock) /\ WF_vars(Loop)
  /\ SF_vars(packet # previous_packet /\ Received)

-----------------------------------------------------------------------------
(* From its press to its release a key is handled as new at most once, in  *)
(* whatever order the other keys go down and up and reports are missed     *)
(* (lab2.c, is_new_keypress).  A report of more keys than it has slots for *)
(* makes all of them look new afterwards: it costs each key one more       *)
(* handling and no more, so the count begins again there.                  *)
HandledOnce == \A k \in Down : times[k] <= 1

(* Only repeatable keys repeat, no sooner than the delay after their press *)
(* was handled and no sooner than the interval after the last repeat.      *)
RepeatsInTime ==
  [][RepeatKey /\ repeat_keycode \in Keys =>
       /\ repeat_keycode \in Repeatable
       /\ sinceFirst[repeat_keycode] >= DELAY /\ sinceRepeat >= INTERVAL]_vars

(* A key that stays up ends its repeats, as long as the keyboard can say   *)
(* so; one that is down when the keyboard is unplugged goes on repeating.  *)
ReleaseEnds ==
  \A k \in Keys : <>[](plugged /\ k \notin Down) => <>[](repeat_keycode # k)

(* A key that stays down alone repeats for ever, if it is repeatable.      *)
HeldRepeats ==
  \A k \in Repeatable, m \in Mods :
    <>[](plugged /\ held = <<k>> /\ modifiers = m) => []<>(sinceRepeat = 0)
=============================================================================
