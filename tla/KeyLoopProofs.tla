--------------------------- MODULE KeyLoopProofs ---------------------------
(***************************************************************************)
(* Proofs about the main loop of lab2/lab2.c: a key is handled as new once *)
(* from its press to its release, and repeats come in time, for any set of *)
(* keys, any number of slots and of keys down, and any two times.          *)
(***************************************************************************)
EXTENDS KeyLoop, SequenceTheorems, TLAPS

(* A key that was handled is still down and in the report that the next    *)
(* one is compared with.                                                   *)
HandledInv ==
  /\ held \in Seq(Keys) /\ times \in [Keys -> {0, 1}]
  /\ \A k \in Keys : times[k] = 1 =>
       k \in Down /\ \E i \in Slot : previous_packet[i] = k

(* What is still to pass until the next repeat makes up for what has not   *)
(* passed since the last one, and since the held key was handled as new;   *)
(* and the key that repeats is in the last report, so that no report makes *)
(* it new.                                                                 *)
TimeInv ==
  /\ wait \in Nat /\ sinceRepeat \in Nat /\ sinceFirst \in [Keys -> Nat]
  /\ sinceRepeat + wait >= INTERVAL
  /\ repeat_keycode \in Keys => sinceFirst[repeat_keycode] + wait >= DELAY
  /\ repeat_keycode # None => \E i \in Slot : previous_packet[i] = repeat_keycode

IInv == HandledInv /\ TimeInv

-----------------------------------------------------------------------------
(* The sizes and times are positive numbers.                               *)
LEMMA Sizes ==
  /\ Slots \in Nat \ {0} /\ DELAY \in Nat \ {0} /\ INTERVAL \in Nat \ {0}
  /\ INTERVAL <= DELAY /\ 1 \in Slot
  BY LoopAssumption DEF Slot

(* What is left of a sequence without one of its members.                  *)
LEMMA WithoutProperties ==
  ASSUME NEW s \in Seq(Keys), NEW i \in 1 .. Len(s)
  PROVE  /\ Without(s, i) \in Seq(Keys) /\ Len(Without(s, i)) = Len(s) - 1
         /\ \A j \in 1 .. Len(s) : j # i =>
              \E m \in 1 .. Len(s) - 1 : Without(s, i)[m] = s[j]
<1>1. Len(s) - 1 \in Nat /\ \A j \in 1 .. Len(s) : s[j] \in Keys
  BY ElementOfSeq
<1>2. Without(s, i) \in [1 .. Len(s) - 1 -> Keys]
  BY <1>1 DEF Without
<1>3. Without(s, i) \in Seq(Keys)
  BY <1>1, <1>2, SeqDef
<1>4. Len(Without(s, i)) = Len(s) - 1
  <2>1. DOMAIN Without(s, i) = 1 .. Len(s) - 1
    BY DEF Without
  <2>2. DOMAIN Without(s, i) = 1 .. Len(Without(s, i)) /\ Len(Without(s, i)) \in Nat
    BY <1>3, LenProperties
  <2> QED
    BY <1>1, <2>1, <2>2
<1>5. ASSUME NEW j \in 1 .. Len(s), j # i
      PROVE  \E m \in 1 .. Len(s) - 1 : Without(s, i)[m] = s[j]
  <2>1. CASE j < i
    <3>1. j \in 1 .. Len(s) - 1
      BY <2>1
    <3> QED
      BY <2>1, <3>1 DEF Without
  <2>2. CASE j > i
    <3>1. j - 1 \in 1 .. Len(s) - 1 /\ ~(j - 1 < i) /\ (j - 1) + 1 = j
      BY <2>2
    <3>2. Without(s, i)[j - 1] = s[j]
      BY <3>1 DEF Without
    <3> QED
      BY <3>1, <3>2
  <2> QED
    BY <1>5, <2>1, <2>2
<1> QED
  BY <1>3, <1>4, <1>5

(* The report: every key that is down, if there are slots for them.        *)
LEMMA Report ==
  ASSUME held \in Seq(Keys)
  PROVE  /\ \A i \in Slot : packet[i] \in Keys => packet[i] \in Down
         /\ ~(Len(held) > Slots) => \A k \in Down : \E i \in Slot : packet[i] = k
         /\ HeldKey # None => \E i \in Slot : packet[i] = HeldKey
<1>1. Len(held) \in Nat /\ \A i \in 1 .. Len(held) : held[i] \in Keys
  BY ElementOfSeq, LenProperties
<1>2. \A i \in Slot : packet[i] \in Keys => packet[i] \in Down
  BY <1>1, LoopAssumption DEF packet, Slot, Down
<1>3. ~(Len(held) > Slots) => \A k \in Down : \E i \in Slot : packet[i] = k
  <2> SUFFICES ASSUME ~(Len(held) > Slots), NEW j \in 1 .. Len(held)
               PROVE  \E i \in Slot : packet[i] = held[j]
    BY DEF Down
  <2>1. j \in Slot /\ j <= Len(held)
    BY <1>1, Sizes DEF Slot
  <2> QED
    BY <2>1 DEF packet
<1>4. HeldKey # None => \E i \in Slot : packet[i] = HeldKey
  <2> SUFFICES ASSUME HeldKey # None PROVE \E i \in Slot : packet[i] = HeldKey
    OBVIOUS
  <2>1. Len(held) # 0
    <3> SUFFICES ASSUME Len(held) = 0 PROVE \A i \in Slot : packet[i] = None
      BY DEF HeldKey
    <3>1. ~(Len(held) > Slots) /\ \A i \in Slot : ~(i <= Len(held))
      BY Sizes DEF Slot
    <3> QED
      BY <3>1 DEF packet
  <2>2. packet[1] # None
    BY <1>1, <2>1, Sizes, LoopAssumption DEF packet
  <2>3. packet[1] # None /\ \A j \in 1 .. 1 - 1 : packet[j] = None
    BY <2>2
  <2> DEFINE First(i) == packet[i] # None /\ \A j \in 1 .. i - 1 : packet[j] = None
  <2>4. First(1)
    BY <2>3
  <2>5. HeldKey = packet[CHOOSE i \in Slot : First(i)]
    BY <2>2, Sizes DEF HeldKey
  <2> HIDE DEF First
  <2>6. (CHOOSE i \in Slot : First(i)) \in Slot
    BY <2>4, Sizes
  <2> QED
    BY <2>5, <2>6
<1> QED
  BY <1>2, <1>3, <1>4

-----------------------------------------------------------------------------
(* The loop starts with no key down and none handled.                      *)
LEMMA InitInv == Init => IInv
<1> SUFFICES ASSUME Init PROVE IInv
  OBVIOUS
<1>1. HandledInv
  <2>1. held \in Seq(Keys)
    BY DEF Init
  <2>2. times \in [Keys -> {0, 1}] /\ \A k \in Keys : times[k] # 1
    BY DEF Init
  <2> QED
    BY <2>1, <2>2 DEF HandledInv
<1>2. TimeInv
  BY LoopAssumption, Sizes DEF Init, TimeInv
<1> QED
  BY <1>1, <1>2 DEF IInv

(* A report counts a key at most once while it is down: a key that was     *)
(* counted is in the report before.                                        *)
LEMMA ReceivedHandled == HandledInv /\ Received => HandledInv'
<1> SUFFICES ASSUME HandledInv, Received PROVE HandledInv'
  OBVIOUS
<1> DEFINE new == {k \in Keys : \E i \in Slot : packet[i] = k /\ IsNew(k)}
<1>1. /\ held' = held /\ previous_packet' = packet /\ Down' = Down
      /\ times' = [k \in Keys |-> IF Len(held) > Slots THEN 0
                                  ELSE IF k \in new THEN times[k] + 1 ELSE times[k]]
  BY DEF Received, HandleNew, kbd, Down
<1>2. held \in Seq(Keys) /\ times \in [Keys -> {0, 1}]
  BY DEF HandledInv
<1>4. ASSUME NEW k \in Keys, k \in new
      PROVE  times[k] = 0 /\ k \in Down /\ \E i \in Slot : packet[i] = k
  <2>1. \A i \in Slot : previous_packet[i] # k
    BY <1>4 DEF IsNew
  <2>2. times[k] # 1 /\ times[k] \in {0, 1}
    BY <1>2, <2>1 DEF HandledInv
  <2> QED
    BY <1>2, <1>4, <2>2, Report
<1>5. ASSUME NEW k \in Keys, ~(Len(held) > Slots), times[k] = 1
      PROVE  k \notin new /\ k \in Down /\ \E i \in Slot : packet[i] = k
  <2>1. k \in Down
    BY <1>5 DEF HandledInv
  <2> QED
    BY <1>2, <1>4, <1>5, <2>1, Report
<1> HIDE DEF new
<1>6. ASSUME NEW k \in Keys
      PROVE  /\ times'[k] \in {0, 1}
             /\ times'[k] = 1 =>
                  k \in Down /\ \E i \in Slot : packet[i] = k
  <2>1. CASE Len(held) > Slots
    BY <1>1, <2>1
  <2>2. CASE ~(Len(held) > Slots) /\ k \in new
    BY <1>1, <1>4, <2>2
  <2>3. CASE ~(Len(held) > Slots) /\ k \notin new
    <3>1. times'[k] = times[k] /\ times[k] \in {0, 1}
      BY <1>1, <1>2, <2>3
    <3> QED
      BY <1>5, <2>3, <3>1
  <2> QED
    BY <2>1, <2>2, <2>3
<1>7. times' \in [Keys -> {0, 1}]
  BY <1>1, <1>6
<1> QED
  BY <1>1, <1>2, <1>6, <1>7 DEF HandledInv

(* Pressing, releasing and missed reports keep the count.                  *)
LEMMA HandledStep == HandledInv /\ [Next]_vars => HandledInv'
<1> SUFFICES ASSUME HandledInv, [Next]_vars PROVE HandledInv'
  OBVIOUS
<1>1. /\ held \in Seq(Keys) /\ times \in [Keys -> {0, 1}]
      /\ Len(held) \in Nat
  BY LenProperties DEF HandledInv
<1>2. CASE UNCHANGED <<held, previous_packet, times>>
  BY <1>2 DEF HandledInv, Down
<1>3. ASSUME NEW k \in Keys, Press(k) PROVE HandledInv'
  <2>1. /\ held' = Append(held, k)
        /\ UNCHANGED <<previous_packet, times>>
    BY <1>3 DEF Press, hist
  <2>2. held' \in Seq(Keys) /\ Down \subseteq Down'
    BY <1>1, <2>1 DEF Down
  <2> QED
    BY <2>1, <2>2 DEF HandledInv
<1>4. ASSUME NEW k \in Keys, Release(k) PROVE HandledInv'
  <2>1. PICK i \in 1 .. Len(held) : held[i] = k /\ held' = Without(held, i)
    BY <1>4 DEF Release
  <2>2. times' = [times EXCEPT ![k] = 0] /\ UNCHANGED previous_packet
    BY <1>4 DEF Release
  <2>3. held' \in Seq(Keys) /\ Len(held') = Len(held) - 1
    BY <1>1, <2>1, WithoutProperties
  <2>4. ASSUME NEW j \in Down, j # k PROVE j \in Down'
    <3>1. PICK m \in 1 .. Len(held) : held[m] = j
      BY DEF Down
    <3>2. \E l \in 1 .. Len(held) - 1 : held'[l] = held[m]
      BY <1>1, <2>1, <2>4, <3>1, WithoutProperties
    <3> QED
      BY <2>3, <3>1, <3>2 DEF Down
  <2>5. times' \in [Keys -> {0, 1}] /\ times'[k] = 0
        /\ \A j \in Keys : j # k => times'[j] = times[j]
    BY <1>1, <2>2
  <2> QED
    BY <1>1, <2>2, <2>3, <2>4, <2>5 DEF HandledInv
<1>5. CASE Unplug
  <2>1. held' = <<>> /\ times' = [k \in Keys |-> 0]
    BY <1>5 DEF Unplug
  <2>2. held' \in Seq(Keys)
    BY <2>1
  <2>3. times' \in [Keys -> {0, 1}] /\ \A k \in Keys : times'[k] # 1
    BY <2>1
  <2> QED
    BY <1>1, <2>1, <2>2, <2>3 DEF HandledInv
<1>6. CASE Received
  BY <1>6, ReceivedHandled
<1>7. CASE Modify \/ Clock \/ NotReceived \/ RepeatCheck \/ UNCHANGED vars
  <2>1. UNCHANGED <<held, previous_packet, times>>
    BY <1>7 DEF Modify, Clock, NotReceived, RepeatCheck, vars, kbd, hist
  <2> QED
    BY <1>2, <2>1
<1> QED
  BY <1>3, <1>4, <1>5, <1>6, <1>7 DEF Next, Loop

(* A key is handled as new at most once from its press, or from the last   *)
(* overfull report, to its release: for any number of keys and slots and   *)
(* however reports are missed.                                             *)
THEOREM HandledCorrect == Spec => []HandledOnce
<1>1. Init => HandledInv
  BY InitInv DEF IInv
<1>2. HandledInv => HandledOnce
  <2> SUFFICES ASSUME HandledInv, NEW i \in 1 .. Len(held)
               PROVE  times[held[i]] <= 1
    BY DEF HandledOnce, Down
  <2>1. held[i] \in Keys
    BY ElementOfSeq DEF HandledInv
  <2>2. times[held[i]] \in {0, 1}
    BY <2>1 DEF HandledInv
  <2> QED
    BY <2>2
<1> QED
  BY <1>1, <1>2, HandledStep, PTL DEF Spec

-----------------------------------------------------------------------------
(* A report that names the repeating key again does not make it new.       *)
LEMMA ReceivedTime == HandledInv /\ TimeInv /\ Received => TimeInv'
<1> SUFFICES ASSUME HandledInv, TimeInv, Received PROVE TimeInv'
  OBVIOUS
<1> DEFINE new == {k \in Keys : \E i \in Slot : packet[i] = k /\ IsNew(k)}
<1>1. /\ wait \in Nat /\ sinceRepeat \in Nat /\ sinceFirst \in [Keys -> Nat]
      /\ sinceRepeat + wait >= INTERVAL
      /\ repeat_keycode \in Keys => sinceFirst[repeat_keycode] + wait >= DELAY
  BY DEF TimeInv
<1>2. /\ previous_packet' = packet
      /\ sinceFirst' = [k \in Keys |-> IF k \in new THEN 0 ELSE sinceFirst[k]]
  BY DEF Received, HandleNew
<1>3. repeat_keycode \in Keys => repeat_keycode \notin new
  BY LoopAssumption DEF TimeInv, IsNew
<1>4. HeldKey # None => \E i \in Slot : previous_packet'[i] = HeldKey
  BY <1>2, Report DEF HandledInv
<1> HIDE DEF new
<1>5. sinceFirst' \in [Keys -> Nat]
  BY <1>1, <1>2
<1>6. repeat_keycode \in Keys => sinceFirst'[repeat_keycode] = sinceFirst[repeat_keycode]
  BY <1>2, <1>3
<1>7. CASE AllUp
  <2>1. repeat_keycode' = None /\ wait' = wait /\ sinceRepeat' = sinceRepeat
    BY <1>7 DEF AllUp
  <2> QED
    BY <1>1, <1>5, <2>1, LoopAssumption DEF TimeInv
<1>8. CASE OtherKey
  <2>1. /\ repeat_keycode' = HeldKey /\ HeldKey # None
        /\ wait' = DELAY /\ sinceRepeat' = sinceRepeat
    BY <1>8 DEF OtherKey
  <2>2. /\ wait' \in Nat /\ sinceRepeat' \in Nat /\ sinceRepeat' + wait' >= INTERVAL
    BY <1>1, <2>1, Sizes
  <2>3. repeat_keycode' \in Keys => sinceFirst'[repeat_keycode'] + wait' >= DELAY
    BY <1>5, <2>1, Sizes
  <2> QED
    BY <1>4, <1>5, <2>1, <2>2, <2>3 DEF TimeInv
<1>9. CASE SameKey
  <2>1. HeldKey # None /\ repeat_keycode' = repeat_keycode /\ repeat_keycode = HeldKey
    BY <1>9 DEF SameKey, Changed, RepeatKey, rep
  <2>2. \/ wait = 0 /\ wait' = INTERVAL /\ sinceRepeat' = 0
        \/ wait' = wait /\ sinceRepeat' = sinceRepeat
    BY <1>9 DEF SameKey, RepeatKey, rep
  <2>3. /\ wait' \in Nat /\ sinceRepeat' \in Nat /\ sinceRepeat' + wait' >= INTERVAL
    BY <1>1, <2>2, Sizes
  <2>4. repeat_keycode' \in Keys => sinceFirst'[repeat_keycode'] + wait' >= DELAY
    BY <1>1, <1>5, <1>6, <2>1, <2>2, Sizes
  <2> QED
    BY <1>4, <1>5, <2>1, <2>3, <2>4 DEF TimeInv
<1> QED
  BY <1>7, <1>8, <1>9 DEF Received

(* The clock moves both sides of the balance, a repeat resets them.        *)
LEMMA TimeStep == IInv /\ [Next]_vars => TimeInv'
<1> SUFFICES ASSUME IInv, [Next]_vars PROVE TimeInv'
  OBVIOUS
<1>1. /\ wait \in Nat /\ sinceRepeat \in Nat /\ sinceFirst \in [Keys -> Nat]
      /\ sinceRepeat + wait >= INTERVAL
      /\ repeat_keycode \in Keys => sinceFirst[repeat_keycode] + wait >= DELAY
  BY DEF IInv, TimeInv
<1>2. CASE UNCHANGED <<previous_packet, repeat_keycode, wait, sinceFirst, sinceRepeat>>
  BY <1>2 DEF IInv, TimeInv
<1>3. CASE Clock
  <2>1. UNCHANGED <<repeat_keycode, previous_packet>>
    BY <1>3 DEF Clock
  <2>2. /\ wait' = IF wait > 0 THEN wait - 1 ELSE 0
        /\ sinceRepeat' = IF sinceRepeat < INTERVAL THEN sinceRepeat + 1 ELSE sinceRepeat
    BY <1>3 DEF Clock
  <2>3. sinceFirst' = [k \in Keys |-> IF sinceFirst[k] < DELAY THEN sinceFirst[k] + 1
                                      ELSE sinceFirst[k]]
    BY <1>3 DEF Clock
  <2>4. wait' \in Nat /\ sinceRepeat' \in Nat /\ sinceRepeat' + wait' >= INTERVAL
    BY <1>1, <2>2, Sizes
  <2>5. sinceFirst' \in [Keys -> Nat]
    BY <1>1, <2>3
  <2>6. repeat_keycode \in Keys => sinceFirst'[repeat_keycode] + wait' >= DELAY
    BY <1>1, <2>2, <2>3, Sizes
  <2> QED
    BY <2>1, <2>4, <2>5, <2>6 DEF IInv, TimeInv
<1>4. CASE RepeatCheck
  <2>1. UNCHANGED <<repeat_keycode, previous_packet, sinceFirst>>
    BY <1>4 DEF RepeatCheck, RepeatKey, rep
  <2>2. \/ wait = 0 /\ wait' = INTERVAL /\ sinceRepeat' = 0
        \/ wait' = wait /\ sinceRepeat' = sinceRepeat
    BY <1>4 DEF RepeatCheck, RepeatKey, rep
  <2>3. /\ wait' \in Nat /\ sinceRepeat' \in Nat /\ sinceRepeat' + wait' >= INTERVAL
    BY <1>1, <2>2, Sizes
  <2>4. repeat_keycode \in Keys => sinceFirst[repeat_keycode] + wait' >= DELAY
    BY <1>1, <2>2, Sizes
  <2> QED
    BY <1>1, <2>1, <2>3, <2>4 DEF IInv, TimeInv
<1>5. CASE Received
  BY <1>5, ReceivedTime DEF IInv
<1>6. CASE (\E k \in Keys : Press(k) \/ Release(k)) \/ Modify \/ Unplug
             \/ NotReceived \/ UNCHANGED vars
  <2>1. UNCHANGED <<previous_packet, repeat_keycode, wait, sinceFirst, sinceRepeat>>
    BY <1>6 DEF Press, Release, Modify, Unplug, NotReceived, vars, kbd, rep, hist
  <2> QED
    BY <1>2, <2>1
<1> QED
  BY <1>3, <1>4, <1>5, <1>6 DEF Next, Loop

(* The inductive invariant of the loop.                                    *)
THEOREM LoopInvariant == Spec => []IInv
<1>1. IInv /\ [Next]_vars => IInv'
  BY HandledStep, TimeStep DEF IInv
<1> QED
  BY <1>1, InitInv, PTL DEF Spec

(* Repeats keep both times, whatever they are.                             *)
THEOREM RepeatsCorrect == Spec => RepeatsInTime
<1>1. IInv /\ [Next]_vars =>
        [RepeatKey /\ repeat_keycode \in Keys =>
           /\ repeat_keycode \in Repeatable
           /\ sinceFirst[repeat_keycode] >= DELAY /\ sinceRepeat >= INTERVAL]_vars
  <2> SUFFICES ASSUME IInv, Next, RepeatKey, repeat_keycode \in Keys
               PROVE  /\ repeat_keycode \in Repeatable
                      /\ sinceFirst[repeat_keycode] >= DELAY
                      /\ sinceRepeat >= INTERVAL
    OBVIOUS
  <2>1. MayRepeat(repeat_keycode) /\ wait = 0
    BY DEF RepeatKey
  <2>2. repeat_keycode \in Repeatable
    BY <2>1, LoopAssumption DEF MayRepeat
  <2>3. sinceFirst[repeat_keycode] \in Nat /\ sinceRepeat \in Nat
    BY DEF IInv, TimeInv
  <2> QED
    BY <2>1, <2>2, <2>3, Sizes DEF IInv, TimeInv
<1> QED
  BY <1>1, LoopInvariant, PTL DEF Spec, RepeatsInTime

-----------------------------------------------------------------------------
(* The key that repeats is the first one of the last report.               *)
FirstRepeats == repeat_keycode = previous_packet[1]

(* A key that is up is not taken up as the one that repeats, the next      *)
(* report ends it if it still is, and such a report is due: it differs     *)
(* from the last one.                                                      *)
UpEnds ==
  [][\A k \in Keys : k \notin Down =>
       /\ Received => repeat_keycode' # k
       /\ repeat_keycode' = k => repeat_keycode = k /\ packet # previous_packet]_vars

(* The loop repeats the key that is down, with the modifiers there are.    *)
Holding(k, m) ==
  held = <<k>> /\ modifiers = m /\ repeat_keycode = k /\ repeat_modifiers = m

(* While the same key is down alone, neither a report nor a missed one     *)
(* puts its repeat off: the time until it only gets shorter, and is set    *)
(* again by the repeat itself.                                             *)
NotPutOff ==
  [][\A k \in Keys, m \in Mods :
       Holding(k, m) /\ UNCHANGED <<held, modifiers>> =>
         Holding(k, m)' /\ (wait' <= wait \/ RepeatKey)]_vars

(* What main looks for in the report is in its first slot.                 *)
LEMMA HeldKeyIsFirst == held \in Seq(Keys) => HeldKey = packet[1]
<1> SUFFICES ASSUME held \in Seq(Keys) PROVE HeldKey = packet[1]
  OBVIOUS
<1>1. Len(held) \in Nat /\ \A i \in 1 .. Len(held) : held[i] \in Keys
  BY ElementOfSeq, LenProperties
<1>2. CASE packet[1] = None
  <2>1. Len(held) = 0
    BY <1>1, <1>2, Sizes, LoopAssumption DEF packet
  <2>2. ~(Len(held) > Slots) /\ \A i \in Slot : ~(i <= Len(held))
    BY <2>1, Sizes DEF Slot
  <2>3. \A i \in Slot : packet[i] = None
    BY <2>2 DEF packet
  <2> QED
    BY <1>2, <2>3 DEF HeldKey
<1>3. CASE packet[1] # None
  <2> DEFINE First(i) == packet[i] # None /\ \A j \in 1 .. i - 1 : packet[j] = None
  <2>1. First(1)
    BY <1>3
  <2>2. HeldKey = packet[CHOOSE i \in Slot : First(i)]
    BY <1>3, Sizes DEF HeldKey
  <2>3. \A i \in Slot : First(i) => i = 1
    <3> SUFFICES ASSUME NEW i \in Slot, First(i), i # 1 PROVE FALSE
      OBVIOUS
    <3>1. 1 \in 1 .. i - 1
      BY Sizes DEF Slot
    <3> QED
      BY <1>3, <3>1
  <2> HIDE DEF First
  <2>4. (CHOOSE i \in Slot : First(i)) = 1
    BY <2>1, <2>3, Sizes
  <2> QED
    BY <2>2, <2>4
<1> QED
  BY <1>2, <1>3

(* A report takes up its first key, or none; nothing else changes the one  *)
(* that repeats.                                                           *)
LEMMA TakesUp ==
  ASSUME held \in Seq(Keys), [Next]_vars
  PROVE  IF Received THEN repeat_keycode' = packet[1] /\ previous_packet' = packet
         ELSE UNCHANGED <<repeat_keycode, previous_packet>>
<1>1. CASE Received
  <2>1. repeat_keycode' = HeldKey
    BY <1>1 DEF Received, AllUp, OtherKey, SameKey, Changed, RepeatKey, rep
  <2> QED
    BY <1>1, <2>1, HeldKeyIsFirst DEF Received
<1>2. CASE ~Received
  BY <1>2 DEF Next, Loop, Press, Release, Modify, Unplug, Clock, NotReceived, RepeatCheck,
              RepeatKey, rep, vars
<1> QED
  BY <1>1, <1>2

(* The key that repeats is the first of the last report: the other keys    *)
(* that are down do not repeat (lab2.c:140-147).                          *)
THEOREM FirstRepeatsCorrect == Spec => []FirstRepeats
<1>1. Init => FirstRepeats
  BY Sizes DEF Init, FirstRepeats
<1>2. IInv /\ FirstRepeats /\ [Next]_vars => FirstRepeats'
  BY TakesUp DEF IInv, HandledInv, FirstRepeats
<1> QED
  BY <1>1, <1>2, LoopInvariant, PTL DEF Spec

(* A released key ends its repeats with the next report, which is due: why *)
(* ReleaseEnds holds, for any number of keys and slots.                    *)
THEOREM UpEndsCorrect == Spec => UpEnds
<1> DEFINE Ends == \A k \in Keys : k \notin Down =>
                     /\ Received => repeat_keycode' # k
                     /\ repeat_keycode' = k =>
                          repeat_keycode = k /\ packet # previous_packet
<1>1. IInv /\ [Next]_vars => Ends
  <2> SUFFICES ASSUME IInv, [Next]_vars, NEW k \in Keys, k \notin Down
               PROVE  /\ Received => repeat_keycode' # k
                      /\ repeat_keycode' = k =>
                           repeat_keycode = k /\ packet # previous_packet
    OBVIOUS
  <2>1. held \in Seq(Keys)
    BY DEF IInv, HandledInv
  <2>2. \A i \in Slot : packet[i] # k
    BY <2>1, Report
  <2>3. Received => repeat_keycode' # k
    BY <2>1, <2>2, TakesUp, Sizes
  <2>4. repeat_keycode' = k => repeat_keycode = k
    BY <2>1, <2>3, TakesUp
  <2>5. repeat_keycode = k => packet # previous_packet
    BY <2>2, LoopAssumption DEF IInv, TimeInv
  <2> QED
    BY <2>3, <2>4, <2>5
<1> HIDE DEF Ends
<1>2. IInv /\ [Next]_vars => [Ends]_vars
  BY <1>1
<1> QED
  BY <1>2, LoopInvariant, PTL DEF Spec, UpEnds, Ends

(* A report that changes nothing does not start the delay again, and time  *)
(* that passes brings the repeat nearer: why HeldRepeats holds.            *)
THEOREM NotPutOffCorrect == Spec => NotPutOff
<1> DEFINE Nearer == \A k \in Keys, m \in Mods :
                       Holding(k, m) /\ UNCHANGED <<held, modifiers>> =>
                         Holding(k, m)' /\ (wait' <= wait \/ RepeatKey)
<1>1. IInv /\ [Next]_vars => Nearer
  <2> SUFFICES ASSUME IInv, [Next]_vars, NEW k \in Keys, NEW m \in Mods,
                      Holding(k, m), UNCHANGED <<held, modifiers>>
               PROVE  Holding(k, m)' /\ (wait' <= wait \/ RepeatKey)
    OBVIOUS
  <2>1. held \in Seq(Keys) /\ wait \in Nat
    BY DEF IInv, HandledInv, TimeInv
  <2>2. HeldKey = k
    <3>1. Len(held) = 1 /\ held[1] = k
      BY DEF Holding
    <3>2. packet[1] = k
      BY <3>1, Sizes DEF packet
    <3> QED
      BY <2>1, <3>2, HeldKeyIsFirst
  <2>3. k # None
    BY LoopAssumption
  <2>4. ~Changed
    BY <2>2 DEF Changed, Holding
  <2>5. /\ repeat_keycode' = repeat_keycode /\ repeat_modifiers' = repeat_modifiers
        /\ (wait' = wait \/ Clock \/ RepeatKey)
    <3>1. CASE Received
      BY <2>2, <2>3, <2>4, <3>1 DEF Received, AllUp, OtherKey, SameKey, RepeatKey, rep
    <3>2. CASE ~Received
      BY <3>2 DEF Next, Loop, Press, Release, Modify, Unplug, Clock, NotReceived,
                  RepeatCheck, RepeatKey, rep, vars
    <3> QED
      BY <3>1, <3>2
  <2>6. Clock => wait' <= wait
    BY <2>1 DEF Clock
  <2> QED
    BY <2>1, <2>5, <2>6 DEF Holding
<1> HIDE DEF Nearer
<1>2. IInv /\ [Next]_vars => [Nearer]_vars
  BY <1>1
<1> QED
  BY <1>2, LoopInvariant, PTL DEF Spec, NotPutOff, Nearer
=============================================================================
