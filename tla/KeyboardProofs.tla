--------------------------- MODULE KeyboardProofs ---------------------------
(***************************************************************************)
(* Proofs about Keyboard for any size of the buffer and of the row, any    *)
(* characters and any keys: the line is a terminated C string, it is       *)
(* edited as TextEdit says, and Enter clears it when it has been sent.     *)
(***************************************************************************)
EXTENDS Keyboard, TLAPS, SequenceTheorems

Lines == [buffer : [Index -> Char \cup {NUL}], length : Nat, cursor : Nat]

(* The characters before the terminator fill the line.                     *)
Good(s) ==
  /\ s \in Lines
  /\ s.cursor <= s.length /\ s.length < INPUT_BUFFER_SIZE
  /\ s.buffer[s.length] = NUL
  /\ \A i \in Nat : i < s.length => s.buffer[i] \in Char

(* t is s with k characters put in before the cursor.                      *)
Inserted(s, t, k) ==
  /\ Good(t) /\ t.length = s.length + k /\ t.cursor = s.cursor + k
  /\ \A i \in Nat : i < s.cursor => t.buffer[i] = s.buffer[i]
  /\ \A i \in Nat : s.cursor <= i /\ i < s.length => t.buffer[i + k] = s.buffer[i]

(* t is s without the character before the cursor.                         *)
Deleted(s, t) ==
  /\ Good(t) /\ t.length = s.length - 1 /\ t.cursor = s.cursor - 1
  /\ \A i \in Nat : i < t.cursor => t.buffer[i] = s.buffer[i]
  /\ \A i \in Nat : t.cursor <= i /\ i < t.length => t.buffer[i] = s.buffer[i + 1]

(* The buffer has room for its terminating zero.                           *)
LEMMA Size == INPUT_BUFFER_SIZE \in Nat /\ INPUT_BUFFER_SIZE > 0
              /\ \A i : i \in Index <=> i \in Nat /\ i < INPUT_BUFFER_SIZE
BY BufferAssumption DEF Index

(* The loop of input_buf_add_char shifts what follows the cursor, and it   *)
(* leaves room for the terminator.                                         *)
LEMMA AddCharInserts ==
  ASSUME NEW s, Good(s), NEW ch \in Char, ~Full(s)
  PROVE  Inserted(s, AddChar(s, ch), 1)
<1> DEFINE b == [i \in Index |-> IF i = s.cursor THEN ch
                                 ELSE IF i \in MovedRight(s) THEN s.buffer[i - 1]
                                 ELSE s.buffer[i]]
           t == AddChar(s, ch)
<1>1. /\ s.length \in Nat /\ s.cursor \in Nat /\ s.cursor <= s.length
      /\ s.length + 1 < INPUT_BUFFER_SIZE /\ INPUT_BUFFER_SIZE \in Nat
      /\ s.buffer \in [Index -> Char \cup {NUL}]
  BY Size DEF Good, Lines, Full
<1>2. /\ t = [buffer |-> TerminatedAt(b, s.length + 1),
              length |-> s.length + 1, cursor |-> s.cursor + 1]
  BY DEF AddChar
<1>3. ASSUME NEW i \in Index
      PROVE  /\ b[i] \in Char \cup {NUL}
             /\ i < s.cursor => b[i] = s.buffer[i]
             /\ i = s.cursor => b[i] = ch
             /\ s.cursor < i /\ i <= s.length => b[i] = s.buffer[i - 1]
  <2>1. i \in Nat /\ i < INPUT_BUFFER_SIZE
    BY Size
  <2>2. i \in MovedRight(s) <=> s.cursor < i /\ i <= s.length
    BY <1>1, <2>1 DEF MovedRight
  <2>3. i \in MovedRight(s) => i - 1 \in Index
    BY <1>1, <2>1, <2>2, Size
  <2> QED
    BY <1>1, <2>1, <2>2, <2>3
<1>4. b \in [Index -> Char \cup {NUL}]
  BY <1>3
<1> HIDE DEF b, t
<1>5. s.length + 1 \in Index
  BY <1>1, Size
<1>6. /\ t.length = s.length + 1 /\ t.cursor = s.cursor + 1
      /\ t.buffer = [b EXCEPT ![s.length + 1] = NUL]
  BY <1>2 DEF TerminatedAt
<1>7. t.buffer \in [Index -> Char \cup {NUL}] /\ t.buffer[t.length] = NUL
  BY <1>4, <1>5, <1>6
<1>8. ASSUME NEW i \in Nat, i <= s.length
      PROVE  i \in Index /\ t.buffer[i] = b[i]
  BY <1>1, <1>4, <1>6, <1>8, Size
<1>9. ASSUME NEW i \in Nat, i < t.length
      PROVE  t.buffer[i] \in Char
  <2>1. i \in Index /\ t.buffer[i] = b[i] /\ i <= s.length
    BY <1>1, <1>6, <1>8, <1>9
  <2>2. CASE i < s.cursor
    BY <1>1, <1>3, <2>1, <2>2 DEF Good
  <2>3. CASE i = s.cursor
    BY <1>3, <2>1, <2>3
  <2>4. CASE s.cursor < i
    <3>1. i - 1 \in Nat /\ i - 1 < s.length
      BY <1>1, <2>1, <2>4
    <3> QED
      BY <1>3, <2>1, <2>4, <3>1 DEF Good
  <2> QED
    BY <1>1, <2>2, <2>3, <2>4
<1>10. Good(t)
  <2>1. t \in Lines
    BY <1>1, <1>2, <1>6, <1>7 DEF Lines
  <2> QED
    BY <1>1, <1>6, <1>7, <1>9, <2>1 DEF Good
<1>11. ASSUME NEW i \in Nat, i < s.cursor
       PROVE  t.buffer[i] = s.buffer[i]
  BY <1>1, <1>3, <1>8, <1>11
<1>12. ASSUME NEW i \in Nat, s.cursor <= i, i < s.length
       PROVE  t.buffer[i + 1] = s.buffer[i]
  <2>1. i + 1 \in Nat /\ i + 1 <= s.length /\ s.cursor < i + 1 /\ (i + 1) - 1 = i
    BY <1>1, <1>12
  <2> QED
    BY <1>3, <1>8, <2>1
<1> QED
  BY <1>6, <1>10, <1>11, <1>12 DEF Inserted, t

(* The loop of input_buf_delete_char closes the gap.                       *)
LEMMA DeleteCharDeletes ==
  ASSUME NEW s, Good(s), s.cursor # 0
  PROVE  Deleted(s, DeleteChar(s))
<1> DEFINE b == [i \in Index |-> IF i \in s.cursor - 1 .. s.length - 2
                                 THEN s.buffer[i + 1] ELSE s.buffer[i]]
           t == DeleteChar(s)
<1>1. /\ s.length \in Nat /\ s.cursor \in Nat /\ 0 < s.cursor /\ s.cursor <= s.length
      /\ s.length < INPUT_BUFFER_SIZE /\ INPUT_BUFFER_SIZE \in Nat
      /\ s.buffer \in [Index -> Char \cup {NUL}]
  BY Size DEF Good, Lines
<1>2. t = [buffer |-> TerminatedAt(b, s.length - 1),
           length |-> s.length - 1, cursor |-> s.cursor - 1]
  BY DEF DeleteChar
<1>3. ASSUME NEW i \in Index
      PROVE  /\ b[i] \in Char \cup {NUL}
             /\ i < s.cursor - 1 => b[i] = s.buffer[i]
             /\ s.cursor - 1 <= i /\ i < s.length - 1 => b[i] = s.buffer[i + 1]
  <2>1. i \in Nat /\ i < INPUT_BUFFER_SIZE
    BY Size
  <2>2. i \in s.cursor - 1 .. s.length - 2 <=> s.cursor - 1 <= i /\ i < s.length - 1
    BY <1>1, <2>1
  <2>3. i < s.length - 1 => i + 1 \in Index
    BY <1>1, <2>1, Size
  <2> QED
    BY <1>1, <2>1, <2>2, <2>3
<1>4. b \in [Index -> Char \cup {NUL}]
  BY <1>3
<1> HIDE DEF b, t
<1>5. s.length - 1 \in Index
  BY <1>1, Size
<1>6. /\ t.length = s.length - 1 /\ t.cursor = s.cursor - 1
      /\ t.buffer = [b EXCEPT ![s.length - 1] = NUL]
  BY <1>2 DEF TerminatedAt
<1>7. t.buffer \in [Index -> Char \cup {NUL}] /\ t.buffer[t.length] = NUL
  BY <1>4, <1>5, <1>6
<1>8. ASSUME NEW i \in Nat, i < s.length - 1
      PROVE  i \in Index /\ t.buffer[i] = b[i]
  BY <1>1, <1>4, <1>6, <1>8, Size
<1>9. ASSUME NEW i \in Nat, i < t.length
      PROVE  t.buffer[i] \in Char
  <2>1. i \in Index /\ t.buffer[i] = b[i] /\ i < s.length - 1 /\ i + 1 \in Nat
    BY <1>1, <1>6, <1>8, <1>9
  <2>2. CASE i < s.cursor - 1
    BY <1>1, <1>3, <2>1, <2>2 DEF Good
  <2>3. CASE s.cursor - 1 <= i
    <3>1. i + 1 < s.length
      BY <1>1, <2>1
    <3> QED
      BY <1>3, <2>1, <2>3, <3>1 DEF Good
  <2> QED
    BY <1>1, <2>2, <2>3
<1>10. Good(t)
  <2>1. t \in Lines
    BY <1>1, <1>2, <1>6, <1>7 DEF Lines
  <2> QED
    BY <1>1, <1>6, <1>7, <1>9, <2>1 DEF Good
<1> QED
  BY <1>1, <1>3, <1>6, <1>8, <1>10 DEF Deleted, t

(* clear_input_buffer leaves an empty line.                                *)
LEMMA ClearedGood ==
  ASSUME NEW s, Good(s)
  PROVE  Good(Cleared(s))
BY Size DEF Good, Lines, Cleared, TerminatedAt

(* The arrow keys move the cursor by one inside the line, or not at all.   *)
LEMMA MovesGood ==
  ASSUME NEW s, Good(s)
  PROVE  /\ MoveLeft(s) = s \/ (0 < s.cursor /\ MoveLeft(s) = [s EXCEPT !.cursor = @ - 1])
         /\ MoveRight(s) = s \/ (s.cursor < s.length
                                   /\ MoveRight(s) = [s EXCEPT !.cursor = @ + 1])
         /\ Good(MoveLeft(s)) /\ Good(MoveRight(s))
<1>1. s.length \in Nat /\ s.cursor \in Nat
  BY DEF Good, Lines
<1>2. Good(MoveLeft(s))
  BY <1>1 DEF Good, Lines, MoveLeft
<1>3. Good(MoveRight(s))
  BY <1>1 DEF Good, Lines, MoveRight
<1> QED
  BY <1>1, <1>2, <1>3 DEF MoveLeft, MoveRight

(* Characters typed one after the other.                                   *)
LEMMA InsertedAgain ==
  ASSUME NEW s, NEW t, NEW u, NEW k \in Nat, Good(s), Inserted(s, t, k), Inserted(t, u, 1)
  PROVE  Inserted(s, u, k + 1)
<1>1. /\ s.length \in Nat /\ s.cursor \in Nat /\ s.cursor <= s.length
      /\ t.length = s.length + k /\ t.cursor = s.cursor + k
      /\ u.length = t.length + 1 /\ u.cursor = t.cursor + 1 /\ Good(u)
  BY DEF Good, Lines, Inserted
<1>2. ASSUME NEW i \in Nat, i < s.cursor
      PROVE  u.buffer[i] = s.buffer[i]
  <2>1. i < t.cursor
    BY <1>1, <1>2
  <2> QED
    BY <1>2, <2>1 DEF Inserted
<1>3. ASSUME NEW i \in Nat, s.cursor <= i, i < s.length
      PROVE  u.buffer[i + (k + 1)] = s.buffer[i]
  <2>1. i + k \in Nat /\ t.cursor <= i + k /\ i + k < t.length /\ (i + k) + 1 = i + (k + 1)
    BY <1>1, <1>3
  <2> QED
    BY <1>3, <2>1 DEF Inserted
<1> QED
  BY <1>1, <1>2, <1>3 DEF Inserted

(* At most m characters have been put in.                                  *)
Within(s, t, m) ==
  Good(t) /\ (t = s \/ \E k \in Nat : 1 <= k /\ k <= m /\ Inserted(s, t, k))

(* One more character of a tab is one more inserted at the cursor.         *)
LEMMA AddAgain ==
  ASSUME NEW s, NEW t, Good(s), NEW ch \in Char, NEW m \in Nat, Within(s, t, m)
  PROVE  Within(s, AddChar(t, ch), m + 1)
<1>1. CASE Full(t)
  <2>1. AddChar(t, ch) = t
    BY <1>1 DEF AddChar
  <2> QED
    BY <2>1 DEF Within
<1>2. CASE ~Full(t)
  <2>1. Inserted(t, AddChar(t, ch), 1)
    BY <1>2, AddCharInserts DEF Within
  <2>2. Good(AddChar(t, ch))
    BY <2>1 DEF Inserted
  <2>3. CASE t = s
    <3>1. 1 \in Nat /\ 1 <= 1 /\ 1 <= m + 1
      OBVIOUS
    <3> QED
      BY <2>1, <2>2, <2>3, <3>1 DEF Within
  <2>4. ASSUME NEW k \in Nat, 1 <= k, k <= m, Inserted(s, t, k)
        PROVE  Within(s, AddChar(t, ch), m + 1)
    <3>1. Inserted(s, AddChar(t, ch), k + 1)
      BY <2>1, <2>4, InsertedAgain
    <3>2. k + 1 \in Nat /\ 1 <= k + 1 /\ k + 1 <= m + 1
      BY <2>4
    <3> QED
      BY <2>2, <3>1, <3>2 DEF Within
  <2> QED
    BY <2>3, <2>4 DEF Within
<1> QED
  BY <1>1, <1>2

-----------------------------------------------------------------------------
(* What a step does to the line.                                           *)
Edited ==
  \/ input' = input
  \/ \E k \in Nat : 1 <= k /\ k <= 4 /\ Inserted(input, input', k)
  \/ 0 < input.cursor /\ Deleted(input, input')
  \/ 0 < input.cursor /\ input' = [input EXCEPT !.cursor = @ - 1]
  \/ input.cursor < input.length /\ input' = [input EXCEPT !.cursor = @ + 1]
  \/ thread = "writing" /\ AllSent /\ input' = Cleared(input)

(* Tab inserts up to four spaces, as many as there is room for.            *)
LEMMA TabEdits ==
  ASSUME Good(input), Tab
  PROVE  Good(input') /\ Edited
<1> DEFINE B(s) == AddChar(s, Space)
<1>0. Space \in Char /\ 0 \in Nat /\ 1 \in Nat /\ 2 \in Nat /\ 3 \in Nat
  BY BufferAssumption
<1>1. Within(input, input, 0)
  BY DEF Within
<1>2. Within(input, B(input), 0 + 1)
  BY <1>0, <1>1, AddAgain
<1>3. Within(input, B(B(input)), 1 + 1)
  BY <1>0, <1>2, AddAgain
<1>4. Within(input, B(B(B(input))), 2 + 1)
  BY <1>0, <1>3, AddAgain
<1>5. Within(input, B(B(B(B(input)))), 3 + 1)
  BY <1>0, <1>4, AddAgain
<1>6. input' = B(B(B(B(input))))
  BY DEF Tab, Becomes
<1> HIDE DEF B
<1> QED
  BY <1>5, <1>6 DEF Within, Edited

(* Every key that is drawn has a character.                                *)
LEMMA KeyInChar ==
  ASSUME NEW key \in Letters \cup Others, NEW shift \in BOOLEAN
  PROVE  Ascii(key, shift) \in Char
BY KeysAssumption DEF Ascii

(* Every key edits the line as an insertion, a deletion or a move.         *)
LEMMA LineStep ==
  ASSUME Good(input), [KeyboardNext]_kvars
  PROVE  Good(input') /\ Edited
<1>1. CASE Backspace
  <2>1. CASE input.cursor = 0
    BY <1>1, <2>1 DEF Backspace, Becomes, DeleteChar, Edited
  <2>2. CASE input.cursor # 0
    <3>1. Deleted(input, input')
      BY <1>1, <2>2, DeleteCharDeletes DEF Backspace, Becomes
    <3>2. 0 < input.cursor
      BY <2>2 DEF Good, Lines
    <3> QED
      BY <3>1, <3>2 DEF Deleted, Edited
  <2> QED
    BY <2>1, <2>2
<1>2. CASE Tab
  BY <1>2, TabEdits
<1>3. CASE Left \/ Right
  BY <1>3, MovesGood DEF Left, Right, Becomes, Edited
<1>4. ASSUME NEW key \in Letters \cup Others, NEW shift \in BOOLEAN, Character(key, shift)
      PROVE  Good(input') /\ Edited
  <2>1. input' = AddChar(input, Ascii(key, shift)) /\ Ascii(key, shift) \in Char
    BY <1>4, KeyInChar DEF Character, Becomes
  <2>2. Within(input, input', 0 + 1)
    <3>1. Within(input, input, 0)
      BY DEF Within
    <3> QED
      BY <2>1, <3>1, AddAgain
  <2> QED
    BY <2>2 DEF Within, Edited
<1>5. CASE Sent
  BY <1>5, ClearedGood DEF Sent, Becomes, Edited
<1>6. CASE UNCHANGED input
  BY <1>6 DEF Edited
<1> QED
  BY <1>1, <1>2, <1>3, <1>4, <1>5, <1>6
     DEF KeyboardNext, HandleKeypress, SendLoop, CapsLock, Ignored, Enter, Write,
         WriteFails, Killed, Reset, kvars

(* The program starts with an empty line.                                  *)
LEMMA LineInit == KeyboardInit => Good(input)
BY Size DEF KeyboardInit, InputInit, Good, Lines

(* The line is well-formed at every time.                                  *)
LEMMA LineAlways == KeyboardSpec => []Good(input)
<1>1. Good(input) /\ [KeyboardNext]_kvars => Good(input)'
  BY LineStep
<1> QED
  BY <1>1, LineInit, PTL DEF KeyboardSpec

(* The buffer of keyboard.c always holds the line as a C string: a         *)
(* terminator inside the array, and none before it.                        *)
THEOREM TerminatedCorrect == KeyboardSpec => []Terminated
<1>1. Good(input) => Terminated
  <2> SUFFICES ASSUME Good(input) PROVE Terminated
    OBVIOUS
  <2>1. ASSUME NEW i \in 0 .. input.length - 1 PROVE input.buffer[i] # NUL
    <3>1. i \in Nat /\ i < input.length
      BY DEF Good, Lines
    <3> QED
      BY <3>1, BufferAssumption DEF Good
  <2> QED
    BY <2>1 DEF Terminated, Good
<1> QED
  BY <1>1, LineAlways, PTL

-----------------------------------------------------------------------------
(* The texts of TextEdit, place by place.                                  *)
LEMMA Part ==
  ASSUME NEW t \in Seq(Char), NEW a \in Nat, NEW b \in Nat, 1 <= a, a <= b + 1, b <= Len(t)
  PROVE  /\ SubSeq(t, a, b) \in Seq(Char) /\ Len(SubSeq(t, a, b)) = b - a + 1
         /\ \A i \in Nat : 1 <= i /\ i <= b - a + 1 => SubSeq(t, a, b)[i] = t[a + i - 1]
<1>1. \A i \in a .. b : t[i] \in Char
  BY ElementOfSeq, LenProperties
<1>2. /\ SubSeq(t, a, b) \in Seq(Char)
      /\ Len(SubSeq(t, a, b)) = IF a <= b THEN b - a + 1 ELSE 0
      /\ \A i \in 1 .. b - a + 1 : SubSeq(t, a, b)[i] = t[a + i - 1]
  BY <1>1, SubSeqProperties
<1> QED
  BY <1>2

(* What a concatenation holds at each place.                               *)
LEMMA Joined ==
  ASSUME NEW t \in Seq(Char), NEW u \in Seq(Char)
  PROVE  /\ t \o u \in Seq(Char) /\ Len(t \o u) = Len(t) + Len(u)
         /\ \A i \in Nat : 1 <= i /\ i <= Len(t) => (t \o u)[i] = t[i]
         /\ \A i \in Nat : Len(t) < i /\ i <= Len(t) + Len(u) =>
              (t \o u)[i] = u[i - Len(t)]
<1>1. Len(t) \in Nat /\ Len(u) \in Nat
  BY LenProperties
<1>2. /\ t \o u \in Seq(Char) /\ Len(t \o u) = Len(t) + Len(u)
      /\ \A i \in 1 .. Len(t) + Len(u) : (t \o u)[i] = IF i <= Len(t) THEN t[i]
                                                       ELSE u[i - Len(t)]
  BY ConcatProperties
<1> QED
  BY <1>1, <1>2

(* Two texts with the same characters are the same text.                   *)
LEMMA Same ==
  ASSUME NEW t \in Seq(Char), NEW u \in Seq(Char), Len(t) = Len(u),
         \A i \in Nat : 1 <= i /\ i <= Len(t) => t[i] = u[i]
  PROVE  t = u
<1>1. \A i \in 1 .. Len(t) : t[i] = u[i]
  BY LenProperties
<1> QED
  BY <1>1, SeqEqual

(* Characters moved up by k leave the text with k more in between.         *)
LEMMA Splice ==
  ASSUME NEW t \in Seq(Char), NEW v \in Seq(Char), NEW c \in Nat, NEW k \in Nat,
         c <= Len(t), Len(v) = Len(t) + k,
         \A i \in Nat : 1 <= i /\ i <= c => v[i] = t[i],
         \A i \in Nat : c < i /\ i <= Len(t) => v[i + k] = t[i]
  PROVE  v = SubSeq(t, 1, c) \o SubSeq(v, c + 1, c + k) \o SubSeq(t, c + 1, Len(t))
<1> DEFINE p == SubSeq(t, 1, c)
           q == SubSeq(v, c + 1, c + k)
           r == SubSeq(t, c + 1, Len(t))
           pq == p \o q
           w == pq \o r
<1>0. Len(t) \in Nat /\ Len(v) \in Nat
  BY LenProperties
<1>1. /\ p \in Seq(Char) /\ Len(p) = c
      /\ \A i \in Nat : 1 <= i /\ i <= c => p[i] = t[i]
  <2>1. 1 \in Nat /\ 1 <= 1 /\ 1 <= c + 1
    OBVIOUS
  <2> QED
    BY <2>1, Part
<1>2. /\ q \in Seq(Char) /\ Len(q) = k
      /\ \A i \in Nat : 1 <= i /\ i <= k => q[i] = v[c + i]
  <2>1. c + 1 \in Nat /\ c + k \in Nat /\ 1 <= c + 1 /\ c + 1 <= (c + k) + 1
        /\ c + k <= Len(v) /\ (c + k) - (c + 1) + 1 = k
    BY <1>0
  <2>2. /\ q \in Seq(Char) /\ Len(q) = (c + k) - (c + 1) + 1
        /\ \A i \in Nat : 1 <= i /\ i <= (c + k) - (c + 1) + 1 => q[i] = v[(c + 1) + i - 1]
    BY <2>1, Part
  <2> QED
    BY <2>1, <2>2
<1>3. /\ r \in Seq(Char) /\ Len(r) = Len(t) - c
      /\ \A i \in Nat : 1 <= i /\ i <= Len(t) - c => r[i] = t[c + i]
  <2>1. c + 1 \in Nat /\ 1 <= c + 1 /\ c + 1 <= Len(t) + 1
        /\ Len(t) - (c + 1) + 1 = Len(t) - c /\ Len(t) <= Len(t)
    BY <1>0
  <2>2. /\ r \in Seq(Char) /\ Len(r) = Len(t) - (c + 1) + 1
        /\ \A i \in Nat : 1 <= i /\ i <= Len(t) - (c + 1) + 1 => r[i] = t[(c + 1) + i - 1]
    <3>1. PICK n \in Nat : n = Len(t)
      BY <1>0
    <3>2. c + 1 <= n + 1 /\ n <= Len(t)
      BY <2>1, <3>1
    <3>3. /\ SubSeq(t, c + 1, n) \in Seq(Char) /\ Len(SubSeq(t, c + 1, n)) = n - (c + 1) + 1
          /\ \A i \in Nat : 1 <= i /\ i <= n - (c + 1) + 1 =>
               SubSeq(t, c + 1, n)[i] = t[(c + 1) + i - 1]
      BY <2>1, <3>2, Part
    <3> QED
      BY <3>1, <3>3
  <2>3. ASSUME NEW i \in Nat, 1 <= i, i <= Len(t) - c
        PROVE  r[i] = t[c + i]
    <3>1. (c + 1) + i - 1 = c + i
      OBVIOUS
    <3> HIDE DEF r
    <3> QED
      BY <2>1, <2>2, <2>3, <3>1
  <2> QED
    BY <2>1, <2>2, <2>3
<1> HIDE DEF p, q, r, w
<1>4. /\ pq \in Seq(Char) /\ Len(pq) = c + k
      /\ \A i \in Nat : 1 <= i /\ i <= c => pq[i] = p[i]
      /\ \A i \in Nat : c < i /\ i <= c + k => pq[i] = q[i - c]
  <2>1. /\ pq \in Seq(Char) /\ Len(pq) = Len(p) + Len(q)
        /\ \A i \in Nat : 1 <= i /\ i <= Len(p) => pq[i] = p[i]
        /\ \A i \in Nat : Len(p) < i /\ i <= Len(p) + Len(q) => pq[i] = q[i - Len(p)]
    BY <1>1, <1>2, Joined, Zenon
  <2> HIDE DEF pq
  <2> QED
    BY <1>1, <1>2, <2>1
<1> HIDE DEF pq
<1>5. /\ w \in Seq(Char) /\ Len(w) = (c + k) + (Len(t) - c)
      /\ \A i \in Nat : 1 <= i /\ i <= c + k => w[i] = pq[i]
      /\ \A i \in Nat : c + k < i /\ i <= (c + k) + (Len(t) - c) => w[i] = r[i - (c + k)]
  <2>0. pq \in Seq(Char) /\ r \in Seq(Char)
    BY <1>3, <1>4
  <2>1. /\ w \in Seq(Char) /\ Len(w) = Len(pq) + Len(r)
        /\ \A i \in Nat : 1 <= i /\ i <= Len(pq) => w[i] = pq[i]
        /\ \A i \in Nat : Len(pq) < i /\ i <= Len(pq) + Len(r) => w[i] = r[i - Len(pq)]
    BY <2>0, Joined, Zenon DEF w
  <2> QED
    BY <1>3, <1>4, <2>1
<1> HIDE DEF w
<1>6. ASSUME NEW i \in Nat, 1 <= i, i <= Len(v)
      PROVE  v[i] = w[i]
  <2>1. CASE i <= c
    <3>1. i <= c + k
      BY <2>1
    <3> QED
      BY <1>1, <1>4, <1>5, <1>6, <2>1, <3>1
  <2>2. CASE c < i /\ i <= c + k
    <3>1. i - c \in Nat /\ 1 <= i - c /\ i - c <= k /\ c + (i - c) = i
      BY <2>2
    <3>2. w[i] = pq[i]
      BY <1>5, <1>6, <2>2
    <3>3. pq[i] = q[i - c]
      BY <1>4, <2>2
    <3>4. q[i - c] = v[i]
      BY <1>2, <3>1
    <3> QED
      BY <3>2, <3>3, <3>4
  <2>3. CASE c + k < i
    <3>1. /\ i - (c + k) \in Nat /\ 1 <= i - (c + k) /\ i - (c + k) <= Len(t) - c
          /\ i <= (c + k) + (Len(t) - c)
          /\ i - k \in Nat /\ c < i - k /\ i - k <= Len(t) /\ (i - k) + k = i
          /\ c + (i - (c + k)) = i - k
      BY <1>0, <1>6, <2>3
    <3>2. w[i] = r[i - (c + k)]
      BY <1>5, <2>3, <3>1
    <3>3. r[i - (c + k)] = t[i - k]
      BY <1>3, <3>1
    <3>4. v[i] = t[i - k]
      BY <3>1
    <3> QED
      BY <3>2, <3>3, <3>4
  <2> QED
    BY <2>1, <2>2, <2>3
<1>7. Len(w) = Len(v)
  BY <1>0, <1>5
<1>8. v = w
  BY <1>5, <1>6, <1>7, Same
<1> QED
  BY <1>8 DEF w, pq, p, q, r

(* Characters moved down by one leave the text without one of them.        *)
LEMMA Cut ==
  ASSUME NEW t \in Seq(Char), NEW v \in Seq(Char), NEW c \in Nat,
         1 <= c, c <= Len(t), Len(v) = Len(t) - 1,
         \A i \in Nat : 1 <= i /\ i < c => v[i] = t[i],
         \A i \in Nat : c <= i /\ i < Len(t) => v[i] = t[i + 1]
  PROVE  v = SubSeq(t, 1, c - 1) \o SubSeq(t, c + 1, Len(t))
<1>0. PICK n \in Nat : n = Len(t)
  BY LenProperties
<1> DEFINE p == SubSeq(t, 1, c - 1)
           r == SubSeq(t, c + 1, n)
           w == p \o r
<1>1. /\ p \in Seq(Char) /\ Len(p) = c - 1
      /\ \A i \in Nat : 1 <= i /\ i <= c - 1 => p[i] = t[i]
  <2>1. /\ 1 \in Nat /\ c - 1 \in Nat /\ 1 <= 1 /\ 1 <= (c - 1) + 1 /\ c - 1 <= Len(t)
        /\ (c - 1) - 1 + 1 = c - 1
    BY <1>0
  <2>2. /\ p \in Seq(Char) /\ Len(p) = (c - 1) - 1 + 1
        /\ \A i \in Nat : 1 <= i /\ i <= (c - 1) - 1 + 1 => p[i] = t[1 + i - 1]
    BY <2>1, Part
  <2> HIDE DEF p
  <2> QED
    BY <2>1, <2>2
<1>2. /\ r \in Seq(Char) /\ Len(r) = n - c
      /\ \A i \in Nat : 1 <= i /\ i <= n - c => r[i] = t[c + i]
  <2>1. /\ c + 1 \in Nat /\ 1 <= c + 1 /\ c + 1 <= n + 1 /\ n <= Len(t)
        /\ n - (c + 1) + 1 = n - c
    BY <1>0
  <2>2. /\ r \in Seq(Char) /\ Len(r) = n - (c + 1) + 1
        /\ \A i \in Nat : 1 <= i /\ i <= n - (c + 1) + 1 => r[i] = t[(c + 1) + i - 1]
    BY <2>1, Part
  <2> HIDE DEF r
  <2> QED
    BY <2>1, <2>2
<1> HIDE DEF p, r
<1>3. /\ w \in Seq(Char) /\ Len(w) = n - 1
      /\ \A i \in Nat : 1 <= i /\ i <= c - 1 => w[i] = p[i]
      /\ \A i \in Nat : c - 1 < i /\ i <= n - 1 => w[i] = r[i - (c - 1)]
  <2>0. p \in Seq(Char) /\ r \in Seq(Char)
    BY <1>1, <1>2
  <2>1. /\ w \in Seq(Char) /\ Len(w) = Len(p) + Len(r)
        /\ \A i \in Nat : 1 <= i /\ i <= Len(p) => w[i] = p[i]
        /\ \A i \in Nat : Len(p) < i /\ i <= Len(p) + Len(r) => w[i] = r[i - Len(p)]
    BY <2>0, Joined, Zenon
  <2> HIDE DEF w
  <2> QED
    BY <1>1, <1>2, <2>1
<1> HIDE DEF w
<1>4. ASSUME NEW i \in Nat, 1 <= i, i <= Len(v)
      PROVE  v[i] = w[i]
  <2>1. CASE i < c
    <3>1. i <= c - 1
      BY <2>1
    <3> QED
      BY <1>1, <1>3, <1>4, <2>1, <3>1
  <2>2. CASE c <= i
    <3>1. /\ i - (c - 1) \in Nat /\ 1 <= i - (c - 1) /\ i - (c - 1) <= n - c
          /\ c - 1 < i /\ i <= n - 1 /\ i < Len(t) /\ c + (i - (c - 1)) = i + 1
      BY <1>0, <1>4, <2>2
    <3>2. w[i] = r[i - (c - 1)]
      BY <1>3, <3>1
    <3>3. r[i - (c - 1)] = t[i + 1]
      BY <1>2, <3>1
    <3>4. v[i] = t[i + 1]
      BY <2>2, <3>1
    <3> QED
      BY <3>2, <3>3, <3>4
  <2> QED
    BY <2>1, <2>2
<1>5. Len(w) = Len(v)
  BY <1>0, <1>3
<1>6. v = w
  BY <1>3, <1>4, <1>5, Same
<1> QED
  BY <1>0, <1>6 DEF w, p, r

(* The text in a buffer.                                                   *)
TextOf(s) == [i \in 1 .. s.length |-> s.buffer[i - 1]]

(* The text of the line is what the buffer holds before its end.           *)
LEMMA TextIs ==
  ASSUME NEW s, Good(s)
  PROVE  /\ TextOf(s) \in Seq(Char) /\ Len(TextOf(s)) = s.length
         /\ \A i \in Nat : 1 <= i /\ i <= s.length =>
              TextOf(s)[i] = s.buffer[i - 1] /\ TextOf(s)[i] \in Char
<1>1. s.length \in Nat
  BY DEF Good, Lines
<1>2. ASSUME NEW i \in Nat, 1 <= i, i <= s.length
      PROVE  TextOf(s)[i] = s.buffer[i - 1] /\ TextOf(s)[i] \in Char
  <2>1. i - 1 \in Nat /\ i - 1 < s.length /\ i \in 1 .. s.length
    BY <1>1, <1>2
  <2> QED
    BY <2>1 DEF TextOf, Good
<1>3. TextOf(s) \in [1 .. s.length -> Char]
  <2>1. \A i \in 1 .. s.length : s.buffer[i - 1] \in Char
    BY <1>1 DEF Good
  <2> QED
    BY <2>1 DEF TextOf
<1>4. TextOf(s) \in Seq(Char) /\ Len(TextOf(s)) = s.length
  BY <1>1, <1>3
<1> QED
  BY <1>2, <1>4

(* Shifting the tail up is an insertion of the editor.                     *)
LEMMA InsertRefines ==
  ASSUME Good(input), Good(input'), NEW k \in Nat, Inserted(input, input', k)
  PROVE  T!Insert(k)
<1> DEFINE t == TextOf(input)
           v == TextOf(input')
           c == input.cursor
<1>1. /\ c \in Nat /\ c <= input.length /\ input.length \in Nat
      /\ input'.length = input.length + k /\ input'.cursor = c + k
      /\ input'.length < INPUT_BUFFER_SIZE /\ INPUT_BUFFER_SIZE \in Nat
  BY Size DEF Good, Lines, Inserted
<1>2. /\ t \in Seq(Char) /\ Len(t) = input.length
      /\ \A i \in Nat : 1 <= i /\ i <= input.length => t[i] = input.buffer[i - 1]
  BY TextIs
<1>3. /\ v \in Seq(Char) /\ Len(v) = input'.length
      /\ \A i \in Nat : 1 <= i /\ i <= input'.length =>
           v[i] = input'.buffer[i - 1] /\ v[i] \in Char
  BY TextIs
<1>4. Text = t /\ Text' = v
  BY DEF Text, TextOf
<1> HIDE DEF t, v
<1>5. ASSUME NEW i \in Nat, 1 <= i, i <= c
      PROVE  v[i] = t[i]
  <2>1. i - 1 \in Nat /\ i - 1 < c /\ i <= input.length /\ i <= input'.length
    BY <1>1, <1>5
  <2> QED
    BY <1>2, <1>3, <1>5, <2>1 DEF Inserted
<1>6. ASSUME NEW i \in Nat, c < i, i <= Len(t)
      PROVE  v[i + k] = t[i]
  <2>1. /\ i - 1 \in Nat /\ c <= i - 1 /\ i - 1 < input.length /\ 1 <= i
        /\ i + k \in Nat /\ 1 <= i + k /\ i + k <= input'.length
        /\ (i + k) - 1 = (i - 1) + k /\ i <= input.length
    BY <1>1, <1>2, <1>6
  <2>2. v[i + k] = input'.buffer[(i - 1) + k]
    BY <1>3, <2>1
  <2>3. input'.buffer[(i - 1) + k] = input.buffer[i - 1]
    BY <2>1 DEF Inserted
  <2> QED
    BY <1>2, <2>1, <2>2, <2>3
<1>7. Len(v) = Len(t) + k /\ c <= Len(t)
  BY <1>1, <1>2, <1>3
<1>8. v = SubSeq(t, 1, c) \o SubSeq(v, c + 1, c + k) \o SubSeq(t, c + 1, Len(t))
  <2>1. t \in Seq(Char) /\ v \in Seq(Char) /\ c \in Nat /\ k \in Nat
    BY <1>1, <1>2, <1>3
  <2>2. /\ \A i \in Nat : 1 <= i /\ i <= c => v[i] = t[i]
        /\ \A i \in Nat : c < i /\ i <= Len(t) => v[i + k] = t[i]
    BY <1>5, <1>6, Zenon
  <2> HIDE DEF c
  <2> QED
    BY <1>7, <2>1, <2>2, Splice, Zenon
<1>9. ASSUME NEW i \in c + 1 .. c + k
      PROVE  v[i] \in Char
  BY <1>1, <1>3
<1>10. Len(t) + k <= INPUT_BUFFER_SIZE - 1
  BY <1>1, <1>2
<1> QED
  BY <1>1, <1>4, <1>8, <1>9, <1>10 DEF T!Insert, T!Before, T!After

(* Shifting the tail down is a backspace of the editor.                    *)
LEMMA DeleteRefines ==
  ASSUME Good(input), Good(input'), 0 < input.cursor, Deleted(input, input')
  PROVE  T!Backspace
<1> DEFINE t == TextOf(input)
           v == TextOf(input')
           c == input.cursor
<1>1. /\ c \in Nat /\ 1 <= c /\ c <= input.length /\ input.length \in Nat
      /\ input'.length = input.length - 1 /\ input'.cursor = c - 1
  BY Size DEF Good, Lines, Deleted
<1>2. /\ t \in Seq(Char) /\ Len(t) = input.length
      /\ \A i \in Nat : 1 <= i /\ i <= input.length => t[i] = input.buffer[i - 1]
  BY TextIs
<1>3. /\ v \in Seq(Char) /\ Len(v) = input'.length
      /\ \A i \in Nat : 1 <= i /\ i <= input'.length => v[i] = input'.buffer[i - 1]
  BY TextIs
<1>4. Text = t /\ Text' = v
  BY DEF Text, TextOf
<1> HIDE DEF t, v
<1>5. ASSUME NEW i \in Nat, 1 <= i, i < c
      PROVE  v[i] = t[i]
  <2>1. i - 1 \in Nat /\ i - 1 < input'.cursor /\ i <= input.length /\ i <= input'.length
    BY <1>1, <1>5
  <2> QED
    BY <1>2, <1>3, <1>5, <2>1 DEF Deleted
<1>6. ASSUME NEW i \in Nat, c <= i, i < Len(t)
      PROVE  v[i] = t[i + 1]
  <2>1. /\ i - 1 \in Nat /\ input'.cursor <= i - 1 /\ i - 1 < input'.length /\ 1 <= i
        /\ i <= input'.length /\ i + 1 \in Nat /\ 1 <= i + 1 /\ i + 1 <= input.length
        /\ (i - 1) + 1 = i /\ (i + 1) - 1 = i
    BY <1>1, <1>2, <1>6
  <2>2. v[i] = input'.buffer[i - 1]
    BY <1>3, <2>1
  <2>3. input'.buffer[i - 1] = input.buffer[i]
    BY <2>1 DEF Deleted
  <2>4. t[i + 1] = input.buffer[i]
    BY <1>2, <2>1
  <2> QED
    BY <2>2, <2>3, <2>4
<1>7. Len(v) = Len(t) - 1 /\ c <= Len(t)
  BY <1>1, <1>2, <1>3
<1>8. v = SubSeq(t, 1, c - 1) \o SubSeq(t, c + 1, Len(t))
  <2>1. t \in Seq(Char) /\ v \in Seq(Char) /\ c \in Nat /\ 1 <= c
    BY <1>1, <1>2, <1>3
  <2>2. /\ \A i \in Nat : 1 <= i /\ i < c => v[i] = t[i]
        /\ \A i \in Nat : c <= i /\ i < Len(t) => v[i] = t[i + 1]
    BY <1>5, <1>6, Zenon
  <2> HIDE DEF c
  <2> QED
    BY <1>7, <2>1, <2>2, Cut, Zenon
<1> QED
  BY <1>1, <1>4, <1>8 DEF T!Backspace, T!After

(* Moving the cursor is a move of the editor.                              *)
LEMMA MoveRefines ==
  ASSUME Good(input), NEW d \in {-1, 1},
         0 <= input.cursor + d, input.cursor + d <= input.length,
         input' = [input EXCEPT !.cursor = input.cursor + d]
  PROVE  T!Move
<1>1. /\ input.cursor \in Nat /\ input.length \in Nat
      /\ input'.cursor = input.cursor + d /\ input'.length = input.length
      /\ input'.buffer = input.buffer
  BY DEF Good, Lines
<1>2. Text' = Text
  BY <1>1 DEF Text
<1>3. Len(Text) = input.length
  BY TextIs DEF Text, TextOf
<1> QED
  BY <1>1, <1>2, <1>3 DEF T!Move

(* Each step of handle_keypress is one step of the editor, for any size of *)
(* the buffer: typing, the tab cut short by a full buffer, backspace, the  *)
(* arrows and sending; a send that fails, or that takes many calls of      *)
(* write(), is none.                                                       *)
THEOREM EditsTextCorrect == KeyboardSpec => EditsText
<1>1. KeyboardInit => T!Init
  <2> SUFFICES ASSUME KeyboardInit PROVE T!Init
    OBVIOUS
  <2>1. input.length = 0 /\ input.cursor = 0
    BY DEF KeyboardInit, InputInit
  <2>2. Text = <<>>
    BY <2>1 DEF Text
  <2> QED
    BY <2>1, <2>2 DEF T!Init
<1>2. ASSUME Good(input), [KeyboardNext]_kvars
      PROVE  [T!Next]_<<Text, input.cursor>>
  <2>0. Good(input') /\ Edited
    BY <1>2, LineStep
  <2>1. CASE input' = input
    BY <2>1 DEF Text
  <2>2. ASSUME NEW k \in Nat, 1 <= k, k <= 4, Inserted(input, input', k)
        PROVE  T!Next
    <3>1. T!Insert(k)
      BY <1>2, <2>0, <2>2, InsertRefines
    <3>2. k \in 1 .. 4
      BY <2>2
    <3> QED
      BY <3>1, <3>2 DEF T!Next
  <2>3. CASE 0 < input.cursor /\ Deleted(input, input')
    BY <1>2, <2>0, <2>3, DeleteRefines DEF T!Next
  <2>4. CASE 0 < input.cursor /\ input' = [input EXCEPT !.cursor = @ - 1]
    <3>1. -1 \in {-1, 1} /\ 0 <= input.cursor + (-1) /\ input.cursor + (-1) <= input.length
          /\ input' = [input EXCEPT !.cursor = input.cursor + (-1)]
      BY <1>2, <2>4 DEF Good, Lines
    <3> QED
      BY <1>2, <3>1, MoveRefines DEF T!Next
  <2>5. CASE input.cursor < input.length /\ input' = [input EXCEPT !.cursor = @ + 1]
    <3>1. 1 \in {-1, 1} /\ 0 <= input.cursor + 1 /\ input.cursor + 1 <= input.length
          /\ input' = [input EXCEPT !.cursor = input.cursor + 1]
      BY <1>2, <2>5 DEF Good, Lines
    <3> QED
      BY <1>2, <3>1, MoveRefines DEF T!Next
  <2>6. CASE input' = Cleared(input)
    <3>1. input'.length = 0 /\ input'.cursor = 0
      BY <2>6 DEF Cleared
    <3>2. Text' = <<>>
      BY <3>1 DEF Text
    <3> QED
      BY <3>1, <3>2 DEF T!Next, T!Clear
  <2> QED
    BY <2>0, <2>1, <2>2, <2>3, <2>4, <2>5, <2>6 DEF Edited
<1> QED
  BY <1>1, <1>2, LineAlways, PTL DEF KeyboardSpec, EditsText, T!Spec

-----------------------------------------------------------------------------
(* What write() has taken is the beginning of the line; after a failure    *)
(* nothing more is taken, so that a second attempt sends nothing twice.    *)
Taken ==
  /\ sent \in Nat
  /\ thread = "writing" => 0 < input.length /\ sent <= input.length
  /\ thread = "loop" /\ connected => wire = <<>>
  /\ thread = "writing" /\ (connected \/ 0 < sent) => wire = Bytes(0, sent)

(* Two pieces of the line that follow each other are one.                  *)
LEMMA BytesMore ==
  ASSUME Good(input), NEW m \in Nat, NEW n \in Nat, m + n <= input.length
  PROVE  Bytes(0, m) \o Bytes(m, n) = Bytes(0, m + n)
<1>1. ASSUME NEW a \in Nat, NEW k \in Nat, a + k <= input.length
      PROVE  /\ Bytes(a, k) \in Seq(Char) /\ Len(Bytes(a, k)) = k
             /\ \A i \in Nat : 1 <= i /\ i <= k => Bytes(a, k)[i] = input.buffer[a + i - 1]
  <2>1. \A i \in 1 .. k : input.buffer[a + i - 1] \in Char
    <3>1. ASSUME NEW i \in 1 .. k
          PROVE  a + i - 1 \in Nat /\ a + i - 1 < input.length
      BY <1>1 DEF Good, Lines
    <3> QED
      BY <3>1 DEF Good
  <2>2. Bytes(a, k) \in [1 .. k -> Char]
    BY <2>1 DEF Bytes
  <2>3. Bytes(a, k) \in Seq(Char) /\ Len(Bytes(a, k)) = k
    BY <2>2
  <2>4. ASSUME NEW i \in Nat, 1 <= i, i <= k
        PROVE  Bytes(a, k)[i] = input.buffer[a + i - 1]
    <3>1. i \in 1 .. k
      BY <2>4
    <3> QED
      BY <3>1 DEF Bytes
  <2> QED
    BY <2>3, <2>4
<1> DEFINE p == Bytes(0, m)
           q == Bytes(m, n)
           r == Bytes(0, m + n)
           w == p \o q
<1>0. input.length \in Nat /\ 0 + m <= input.length /\ 0 + (m + n) <= input.length
      /\ m + n \in Nat
  BY DEF Good, Lines
<1>2. /\ p \in Seq(Char) /\ Len(p) = m
      /\ \A i \in Nat : 1 <= i /\ i <= m => p[i] = input.buffer[0 + i - 1]
  BY <1>0, <1>1
<1>3. /\ q \in Seq(Char) /\ Len(q) = n
      /\ \A i \in Nat : 1 <= i /\ i <= n => q[i] = input.buffer[m + i - 1]
  BY <1>0, <1>1
<1>4. /\ r \in Seq(Char) /\ Len(r) = m + n
      /\ \A i \in Nat : 1 <= i /\ i <= m + n => r[i] = input.buffer[0 + i - 1]
  BY <1>0, <1>1
<1> HIDE DEF p, q, r
<1>5. /\ w \in Seq(Char) /\ Len(w) = Len(p) + Len(q)
      /\ \A i \in Nat : 1 <= i /\ i <= Len(p) => w[i] = p[i]
      /\ \A i \in Nat : Len(p) < i /\ i <= Len(p) + Len(q) => w[i] = q[i - Len(p)]
  <2>1. p \in Seq(Char) /\ q \in Seq(Char)
    BY <1>2, <1>3
  <2> QED
    BY <2>1, Joined, Zenon
<1> HIDE DEF w
<1>6. ASSUME NEW i \in Nat, 1 <= i, i <= Len(w)
      PROVE  w[i] = r[i]
  <2>1. i <= m + n
    BY <1>2, <1>3, <1>5, <1>6
  <2>2. CASE i <= m
    BY <1>2, <1>4, <1>5, <1>6, <2>1, <2>2
  <2>3. CASE m < i
    <3>1. i - m \in Nat /\ 1 <= i - m /\ i - m <= n /\ m + (i - m) - 1 = 0 + i - 1
      BY <2>1, <2>3
    <3>2. w[i] = q[i - m]
      BY <1>2, <1>3, <1>5, <2>1, <2>3
    <3>3. q[i - m] = input.buffer[0 + i - 1]
      BY <1>3, <3>1
    <3> QED
      BY <1>4, <1>6, <2>1, <3>2, <3>3
  <2> QED
    BY <2>2, <2>3
<1>7. w = r
  <2>1. w \in Seq(Char) /\ r \in Seq(Char) /\ Len(w) = Len(r)
    BY <1>2, <1>3, <1>4, <1>5
  <2> QED
    BY <1>6, <2>1, Same
<1> QED
  BY <1>7 DEF w, p, q, r

(* What write() has taken stays the beginning of the line.                 *)
LEMMA TakenStep ==
  ASSUME Good(input), Taken, [KeyboardNext]_kvars
  PROVE  Taken'
<1>0. input.length \in Nat
  BY DEF Good, Lines
<1>1. CASE thread = "loop" /\ NoSending
  BY <1>1 DEF Taken, NoSending
<1>2. CASE Enter
  <2>1. Bytes(0, 0)' = <<>>
    BY DEF Bytes
  <2> QED
    BY <1>0, <1>2, <2>1 DEF Enter, KeyArrives, Taken
<1>3. ASSUME NEW n \in Index, Write(n)
      PROVE  Taken'
  <2>1. /\ thread = "writing" /\ thread' = "writing" /\ connected /\ input' = input
        /\ n \in Nat /\ sent \in Nat /\ sent + n <= input.length
        /\ wire' = wire \o Bytes(sent, n) /\ sent' = sent + n
    BY <1>0, <1>3 DEF Write, Taken
  <2>2. wire' = Bytes(0, sent + n)
    BY <2>1, BytesMore DEF Taken
  <2>3. Bytes(0, sent)' = Bytes(0, sent + n)
    BY <2>1 DEF Bytes
  <2> QED
    BY <2>1, <2>2, <2>3 DEF Taken
<1>4. CASE WriteFails \/ Killed
  BY <1>4 DEF WriteFails, Killed, Taken
<1>5. CASE Sent
  BY <1>5 DEF Sent, Taken
<1>6. CASE Reset
  BY <1>6 DEF Reset, Taken, Bytes
<1>7. CASE UNCHANGED kvars
  BY <1>7 DEF kvars, Taken, Bytes
<1> QED
  BY <1>1, <1>2, <1>3, <1>4, <1>5, <1>6, <1>7
     DEF KeyboardNext, HandleKeypress, SendLoop, CapsLock, Backspace, Tab, Left, Right,
         Ignored, Character, KeyArrives

(* However write() cuts the line, and whenever the connection is lost:     *)
(* send_input_buffer_to_server clears what has been taken whole and once.  *)
THEOREM ClearsCorrect == KeyboardSpec => ClearsWhatWasSent
<1>1. KeyboardInit => Taken
  BY DEF KeyboardInit, Taken
<1>2. ASSUME Good(input), Taken, [KeyboardNext]_kvars
      PROVE  [thread = "writing" /\ input' # input => wire = Text]_kvars
  <2> SUFFICES ASSUME KeyboardNext, thread = "writing", input' # input
               PROVE  wire = Text
    BY <1>2
  <2>1. Sent
    BY DEF KeyboardNext, HandleKeypress, SendLoop, KeyArrives, CapsLock, Backspace, Tab,
           Left, Right, Enter, Ignored, Character, Write, WriteFails, Killed, Reset
  <2>2. sent = input.length /\ 0 < sent
    BY <1>2, <2>1 DEF Sent, AllSent, Taken, Good, Lines
  <2>3. wire = Bytes(0, input.length)
    BY <1>2, <2>2 DEF Taken
  <2>4. \A i \in 1 .. input.length : 0 + i - 1 = i - 1
    BY <1>2 DEF Good, Lines
  <2> QED
    BY <2>3, <2>4 DEF Bytes, Text
<1> QED
  BY <1>1, <1>2, TakenStep, LineAlways, PTL DEF KeyboardSpec, ClearsWhatWasSent

-----------------------------------------------------------------------------
(* Every function that changes the line draws it.                          *)
Drawn == row = Draw(input) \/ (input.length = 0 /\ row = [c \in Column |-> Space])

(* The row is drawn anew whenever the line changes.                        *)
LEMMA DrawnStep ==
  ASSUME Drawn, [KeyboardNext]_kvars
  PROVE  Drawn'
<1>1. CASE UNCHANGED <<input, row>>
  BY <1>1 DEF Drawn, Draw
<1>2. CASE \E s : Becomes(s)
  BY <1>2 DEF Drawn, Becomes, Draw
<1> QED
  BY <1>1, <1>2
     DEF KeyboardNext, HandleKeypress, SendLoop, CapsLock, Backspace, Tab, Left, Right,
         Enter, Ignored, Character, Write, WriteFails, Killed, Sent, Reset, kvars

(* draw_input_line shows the part of the line around the cursor.           *)
LEMMA DrawShows ==
  ASSUME Good(input), row = Draw(input)
  PROVE  RowShowsLine
<1> DEFINE width == MSG_AREA_COLS - 1
           start == IF input.cursor > width THEN input.cursor - width ELSE 0
           at == input.cursor - start
<1>1. /\ input.cursor \in Nat /\ input.length \in Nat /\ input.cursor <= input.length
      /\ width \in Nat /\ MSG_AREA_COLS \in Nat /\ 1 <= width
  BY BufferAssumption DEF Good, Lines
<1>2. /\ start \in Nat /\ at \in Nat /\ at <= width /\ start + at = input.cursor
      /\ at = input.cursor \/ at = MSG_AREA_COLS - 1
  BY <1>1
<1>3. \A c \in Column : row[c] = IF c = at THEN Bar
                                 ELSE IF c < width /\ start + c < input.length
                                      THEN input.buffer[start + c] ELSE Space
  BY DEF Draw
<1> HIDE DEF start, at
<1>4. /\ Len(Text) = input.length
      /\ \A i \in Nat : 1 <= i /\ i <= input.length => Text[i] = input.buffer[i - 1]
  BY TextIs DEF Text, TextOf
<1>5. at \in Column /\ row[at] = Bar
  BY <1>1, <1>2, <1>3 DEF Column
<1>6. ASSUME NEW c \in 0 .. at - 1
      PROVE  row[c] = Text[input.cursor - at + c + 1]
  <2>1. /\ c \in Column /\ c # at /\ c < width /\ start + c < input.length
        /\ start + c + 1 \in Nat /\ 1 <= start + c + 1 /\ start + c + 1 <= input.length
        /\ input.cursor - at + c + 1 = start + c + 1 /\ (start + c + 1) - 1 = start + c
    BY <1>1, <1>2 DEF Column
  <2>2. row[c] = input.buffer[start + c]
    BY <1>3, <2>1
  <2>3. Text[start + c + 1] = input.buffer[start + c]
    BY <1>4, <2>1
  <2> QED
    BY <2>1, <2>2, <2>3
<1>7. ASSUME NEW c \in at + 1 .. MSG_AREA_COLS - 2
      PROVE  LET i == input.cursor - at + c + 1
             IN row[c] = IF i <= Len(Text) THEN Text[i] ELSE Space
  <2>1. /\ c \in Column /\ c # at /\ c < width
        /\ start + c + 1 \in Nat /\ 1 <= start + c + 1
        /\ input.cursor - at + c + 1 = start + c + 1 /\ (start + c + 1) - 1 = start + c
        /\ start + c < input.length <=> start + c + 1 <= input.length
    BY <1>1, <1>2 DEF Column
  <2>2. row[c] = IF start + c + 1 <= input.length THEN input.buffer[start + c] ELSE Space
    BY <1>3, <2>1
  <2>3. start + c + 1 <= input.length => Text[start + c + 1] = input.buffer[start + c]
    BY <1>4, <2>1
  <2>4. row[c] = IF start + c + 1 <= Len(Text) THEN Text[start + c + 1] ELSE Space
    BY <1>4, <2>2, <2>3
  <2> QED
    BY <2>1, <2>4
<1> QED
  BY <1>2, <1>5, <1>6, <1>7 DEF RowShowsLine

(* The window of display_user_input holds the cursor's mark and, on both   *)
(* sides of it, the right part of a line of any length.                    *)
THEOREM RowCorrect == KeyboardSpec => []RowShowsLine
<1>1. KeyboardInit => Drawn
  BY DEF KeyboardInit, InputInit, Drawn
<1>2. Good(input) /\ Drawn => RowShowsLine
  <2>1. input.length = 0 => Text = <<>>
    BY DEF Text
  <2> QED
    BY <2>1, DrawShows DEF Drawn, RowShowsLine
<1> QED
  BY <1>1, <1>2, DrawnStep, LineAlways, PTL DEF KeyboardSpec
=============================================================================
