---------------------------- MODULE ButtonProofs ----------------------------
(***************************************************************************)
(* The debouncer keeps its contract for every width of the timer, and the  *)
(* pulses behind it come when they are due, for every hold and repeat.     *)
(*                                                                         *)
(* The timer counts the disagreeing samples since the last agreeing one;   *)
(* Counting says so in terms of the sampled past: the samples 3 .. timer+2 *)
(* edges back all differ from the output and the one before them does not. *)
(***************************************************************************)
EXTENDS ButtonPress, TLAPS

Counting ==
  /\ sync_0 = past[1] /\ sync_1 = past[2]
  /\ past[timer + 3] = next
  /\ \A i \in 3 .. timer + 2 : past[i] # next

IInv == TypeOK /\ Counting /\ timer <= age

(* The samples the timer counts are within the recorded past.              *)
LEMMA HistoryIndex ==
  ASSUME TypeOK
  PROVE  /\ Ticks \in Nat /\ Ticks >= 1
         /\ timer \in Nat /\ timer + 3 \in History
         /\ \A i \in 1 .. timer + 3 : i \in History
  BY TicksAssumption DEF TypeOK, History

(* The power-up state satisfies the invariant.                             *)
LEMMA InvInit == Init => IInv
<1> SUFFICES ASSUME Init PROVE IInv
  OBVIOUS
<1>1. Ticks \in Nat /\ Ticks >= 1
  BY TicksAssumption
<1>2. 1 \in History /\ 2 \in History /\ 3 \in History
  BY <1>1 DEF History
<1>3. past \in [History -> BOOLEAN] /\ \A i \in History : past[i] = FALSE
  BY Zenon DEF Init
<1>4. timer \in 0 .. Ticks - 1 /\ age \in 0 .. Ticks /\ timer + 3 = 3
  BY <1>1 DEF Init
<1>5. TypeOK
  BY <1>3, <1>4 DEF Init, TypeOK
<1>6. Counting
  <2>1. 3 .. timer + 2 = {}
    BY DEF Init
  <2> QED
    BY <1>2, <1>3, <1>4, <2>1, Zenon DEF Init, Counting
<1> QED
  BY <1>4, <1>5, <1>6 DEF IInv, Init

(* What an edge does to the history, read one place further back.          *)
LEMMA PastStep ==
  ASSUME TypeOK, Next
  PROVE  /\ past'[1] = switch
         /\ \A i \in History : i > 1 => past'[i] = past[i - 1]
         /\ past' \in [History -> BOOLEAN]
<1>1. past' = [i \in History |-> IF i = 1 THEN switch ELSE past[i - 1]]
  BY DEF Next
<1>2. 1 \in History
  BY HistoryIndex DEF History
<1>3. \A i \in History : i # 1 => i - 1 \in History
  BY HistoryIndex DEF History
<1> QED
  BY <1>1, <1>2, <1>3 DEF TypeOK, History

(* What an edge does to the timer and the output.                          *)
LEMMA TimerStep ==
  ASSUME TypeOK, Disagree
  PROVE  \/ timer < Ticks - 1 /\ timer' = timer + 1 /\ next' = next
         \/ timer = Ticks - 1 /\ timer' = 0 /\ next' = ~next
<1>1. timer \in 0 .. Ticks - 1 /\ Ticks \in Nat /\ Ticks >= 1
  BY HistoryIndex DEF TypeOK
<1>2. CASE timer = Ticks - 1
  <2>1. (timer + 1) % Ticks = 0
    BY <1>1, <1>2
  <2> QED
    BY <1>2, <2>1 DEF Disagree
<1>3. CASE timer < Ticks - 1
  <2>1. (timer + 1) % Ticks = timer + 1
    BY <1>1, <1>3
  <2>2. timer # Ticks - 1
    BY <1>1, <1>3
  <2> QED
    BY <1>3, <2>1, <2>2 DEF Disagree
<1> QED
  BY <1>1, <1>2, <1>3

(* Every edge of the clock keeps the invariant.                            *)
LEMMA InvStep == IInv /\ [Next]_vars => IInv'
<1> SUFFICES ASSUME IInv, [Next]_vars PROVE IInv'
  OBVIOUS
<1>1. CASE UNCHANGED vars
  BY <1>1 DEF vars, IInv, TypeOK, Counting
<1>2. CASE Next
  <2>0. /\ TypeOK /\ Counting /\ timer <= age
        /\ Ticks \in Nat /\ Ticks >= 1 /\ timer \in 0 .. Ticks - 1
        /\ age \in 0 .. Ticks
    BY HistoryIndex DEF IInv, TypeOK
  <2>1. /\ sync_0' = past'[1] /\ sync_1' = past'[2]
        /\ past'[3] = sync_1
    BY <1>2, <2>0, PastStep, HistoryIndex DEF Next, Synchronize, Counting, History
  <2>2. past' \in [History -> BOOLEAN]
    BY <1>2, <2>0, PastStep
  <2>3. sync_0' \in BOOLEAN /\ sync_1' \in BOOLEAN /\ switch' \in BOOLEAN
    BY <1>2, <2>0 DEF Next, Synchronize, TypeOK
  <2>4. age' = IF next' # next THEN 0 ELSE IF age < Ticks THEN age + 1 ELSE age
    BY <1>2 DEF Next
  <2>5. CASE Agree
    <3>1. timer' = 0 /\ next' = next /\ next = sync_1
      BY <2>5 DEF Agree
    <3>2. age' \in 0 .. Ticks /\ timer' <= age'
      BY <2>0, <2>4, <3>1
    <3>3. Counting'
      BY <2>1, <3>1 DEF Counting
    <3>4. TypeOK'
      BY <2>0, <2>2, <2>3, <3>1, <3>2 DEF TypeOK
    <3> QED
      BY <3>2, <3>3, <3>4 DEF IInv
  <2>6. CASE Disagree /\ timer < Ticks - 1
    <3>1. timer' = timer + 1 /\ next' = next /\ next # sync_1
      BY <2>0, <2>6, TimerStep DEF Disagree
    <3>2. age' \in 0 .. Ticks /\ timer' <= age'
      BY <2>0, <2>4, <2>6, <3>1
    <3>3. past'[timer' + 3] = next'
      <4>1. timer + 4 \in History /\ timer + 4 > 1 /\ (timer + 4) - 1 = timer + 3
        BY <2>0, <2>6 DEF History
      <4>2. past'[timer + 4] = past[timer + 3]
        BY <1>2, <2>0, <4>1, PastStep
      <4>3. timer' + 3 = timer + 4
        BY <2>0, <3>1
      <4> QED
        BY <2>0, <3>1, <4>2, <4>3 DEF Counting
    <3>4. ASSUME NEW i \in 3 .. timer' + 2 PROVE past'[i] # next'
      <4>1. CASE i = 3
        BY <2>1, <3>1, <4>1
      <4>2. CASE i # 3
        <5>1. i \in History /\ i > 1 /\ i - 1 \in 3 .. timer + 2
          BY <2>0, <2>6, <3>1, <4>2 DEF History
        <5>2. past'[i] = past[i - 1]
          BY <1>2, <2>0, <5>1, PastStep
        <5> QED
          BY <2>0, <3>1, <5>1, <5>2 DEF Counting
      <4> QED
        BY <4>1, <4>2
    <3>5. TypeOK'
      <4>1. timer' \in 0 .. Ticks - 1
        BY <2>0, <2>6, <3>1
      <4> QED
        BY <2>0, <2>2, <2>3, <3>1, <3>2, <4>1 DEF TypeOK
    <3> QED
      BY <2>1, <3>2, <3>3, <3>4, <3>5 DEF IInv, Counting
  <2>7. CASE Disagree /\ timer = Ticks - 1
    <3>1. timer' = 0 /\ next' = ~next /\ next # sync_1
      BY <2>0, <2>7, TimerStep DEF Disagree
    <3>2. next' = sync_1 /\ next' \in BOOLEAN
      BY <2>0, <3>1 DEF TypeOK
    <3>3. age' \in 0 .. Ticks /\ timer' <= age'
      BY <2>0, <2>4, <3>1
    <3>4. Counting'
      BY <2>1, <3>1, <3>2 DEF Counting
    <3>5. TypeOK'
      BY <2>0, <2>2, <2>3, <3>1, <3>2, <3>3 DEF TypeOK
    <3> QED
      BY <3>3, <3>4, <3>5 DEF IInv
  <2> QED
    BY <1>2, <2>0, <2>5, <2>6, <2>7 DEF Next
<1> QED
  BY <1>1, <1>2

(* The inductive invariant of the debouncer.                               *)
THEOREM DebouncerInvariant == Spec => []IInv
  BY InvInit, InvStep, PTL DEF Spec

(* The registers keep their types for every width of the timer.            *)
THEOREM TypeCorrect == Spec => []TypeOK
  BY DebouncerInvariant, PTL DEF IInv

(* A button that was sampled Ticks + 2 times at one level is followed.     *)
THEOREM RespondsCorrect == Spec => []Responds
<1>1. IInv => Responds
  <2> SUFFICES ASSUME IInv, NEW v \in BOOLEAN, \A i \in History : past[i] = v
               PROVE  next = v
    BY DEF Responds
  <2>1. timer + 3 \in History
    BY HistoryIndex DEF IInv
  <2> QED
    BY <2>1 DEF IInv, Counting
<1> QED
  BY <1>1, DebouncerInvariant, PTL

(* The output changes only after Ticks equal samples.                      *)
THEOREM NoBounceCorrect == Spec => NoBounce
<1>1. IInv /\ [Next]_vars =>
        [next' # next => \A i \in 2 .. Ticks + 1 : past[i] # next]_vars
  <2> SUFFICES ASSUME IInv, Next, next' # next, NEW i \in 2 .. Ticks + 1
               PROVE  past[i] # next
    OBVIOUS
  <2>1. Disagree
    BY DEF Next, Agree
  <2>2. timer = Ticks - 1 /\ timer + 2 = Ticks + 1
    BY <2>1, TimerStep, HistoryIndex DEF IInv
  <2>3. CASE i = 2
    BY <2>1, <2>3 DEF Disagree, IInv, Counting
  <2>4. CASE i # 2
    <3>1. i \in 3 .. timer + 2
      BY <2>2, <2>4, HistoryIndex DEF IInv
    <3> QED
      BY <3>1 DEF IInv, Counting
  <2> QED
    BY <2>3, <2>4
<1> QED
  BY <1>1, DebouncerInvariant, PTL DEF Spec, NoBounce

(* The debouncer implements the contract its users are verified under.     *)
THEOREM RefinesDebounced == Spec => Refines
<1>1. Init => D!Init
  BY DEF Init, D!Init
<1>2. IInv /\ [Next]_vars => [D!Next]_<<next, age>>
  <2> SUFFICES ASSUME IInv, Next PROVE D!Next \/ UNCHANGED <<next, age>>
    BY DEF vars
  <2>0. TypeOK /\ timer <= age /\ timer \in Nat /\ age \in Nat /\ Ticks \in Nat
    BY HistoryIndex DEF IInv, TypeOK
  <2>1. CASE next' = next
    BY <2>1 DEF Next, D!Next, D!Stay
  <2>2. CASE next' # next
    <3>1. Disagree
      BY <2>2 DEF Next, Agree
    <3>2. timer = Ticks - 1 /\ next' = ~next
      BY <2>0, <2>2, <3>1, TimerStep
    <3>3. age + 1 >= Ticks
      BY <2>0, <3>2
    <3>4. age' = 0
      BY <2>2 DEF Next
    <3> QED
      BY <3>2, <3>3, <3>4 DEF D!Next, D!Toggle
  <2> QED
    BY <2>1, <2>2
<1> QED
  BY <1>1, <1>2, DebouncerInvariant, PTL DEF Spec, Refines, D!Spec

-----------------------------------------------------------------------------
(* Where the pulse generator is in a press, by the number of edges that    *)
(* have sampled it: waiting for HOLD, or in a repetition.                  *)
Pressing ==
  /\ prev \in BOOLEAN /\ held \in BOOLEAN /\ pulse \in BOOLEAN
  /\ down \in 0 .. HOLD + REPEAT /\ (prev <=> down > 0) /\ (held <=> down > HOLD)
  /\ down = 0 => cnt = 0 /\ ~pulse
  /\ down \in 1 .. HOLD => cnt = down - 1 /\ (pulse <=> down = 1)
  /\ down > HOLD => cnt = down - 1 - HOLD /\ (pulse <=> down = HOLD + 1)

PressInv == IInv /\ Pressing

(* Hold and repeat are positive and fit the counter.                       *)
LEMMA PressSizes ==
  /\ HOLD \in Int /\ HOLD >= 1 /\ REPEAT \in Int /\ REPEAT >= 1
  /\ Cnts \in Int /\ HOLD < Cnts /\ REPEAT < Cnts
  BY PressAssumption

(* Edges of both circuits are edges of the debouncer.                      *)
LEMMA PressIsEdge ==
  /\ PressInit => Init
  /\ [PressNext]_pressVars => [Next]_vars
  BY DEF PressInit, PressNext, pressVars

(* A counter below Cnts - 1 counts on.                                     *)
LEMMA CountOn ==
  ASSUME NEW k \in Int, 0 <= k, k + 1 < Cnts
  PROVE  (k + 1) % Cnts = k + 1
  BY PressSizes

(* Every edge keeps the place in the press, bounces included.              *)
LEMMA PressStep == PressInv /\ [PressNext]_pressVars => PressInv'
<1> SUFFICES ASSUME PressInv, [PressNext]_pressVars PROVE PressInv'
  OBVIOUS
<1>1. IInv'
  BY PressIsEdge, InvStep DEF PressInv
<1> SUFFICES Pressing'
  BY <1>1 DEF PressInv
<1>2. CASE UNCHANGED pressVars
  BY <1>2 DEF pressVars, PressInv, Pressing
<1>3. CASE PressNext
  <2>0. Edge /\ btn \in BOOLEAN
    BY <1>3 DEF PressNext, PressInv, IInv, TypeOK, btn
  <2>9. prev' \in BOOLEAN /\ held' \in BOOLEAN /\ pulse' \in BOOLEAN
    BY <2>0 DEF Edge, Release, Press, Count, Fire, PressInv, Pressing
  <2>1. CASE ~btn
    <3>1. down' = 0 /\ ~prev' /\ cnt' = 0 /\ ~held' /\ ~pulse'
      BY <2>0, <2>1 DEF Edge, Release, Press, Count, Fire
    <3> QED
      BY <2>9, <3>1, PressSizes DEF Pressing
  <2>2. CASE btn
    <3>0. prev' /\ down' = Longer
      BY <2>0, <2>2 DEF Edge
    <3>1. CASE down = 0
      <4>1. Press /\ down' = 1
        BY <2>0, <2>2, <3>0, <3>1, PressSizes DEF Edge, Release, Count, Fire, PressInv, Pressing, Longer
      <4>2. pulse' /\ cnt' = 0 /\ ~held'
        BY <3>1, <4>1, PressSizes DEF Press, PressInv, Pressing
      <4> QED
        BY <2>9, <3>0, <4>1, <4>2, PressSizes DEF Pressing
    <3>2. CASE down \in 1 .. HOLD
      <4>1. ~held /\ cnt = down - 1 /\ prev /\ down' = down + 1 /\ Threshold = HOLD - 1
        BY <3>0, <3>2, PressSizes DEF PressInv, Pressing, Longer, Threshold
      <4>2. CASE down = HOLD
        <5>1. Fire
          BY <2>0, <2>2, <4>1, <4>2, PressSizes DEF Edge, Release, Press, Count
        <5>2. cnt' = 0 /\ pulse' /\ held'
          BY <5>1 DEF Fire
        <5> QED
          BY <2>9, <3>0, <4>1, <4>2, <5>2, PressSizes DEF Pressing
      <4>3. CASE down # HOLD
        <5>1. Count
          BY <2>0, <2>2, <3>2, <4>1, <4>3, PressSizes DEF Edge, Release, Press, Fire
        <5>2. cnt' = cnt + 1 /\ ~pulse' /\ ~held'
          BY <3>2, <4>1, <4>3, <5>1, CountOn, PressSizes DEF Count
        <5> QED
          BY <2>9, <3>0, <3>2, <4>1, <4>3, <5>2, PressSizes DEF Pressing
      <4> QED
        BY <4>2, <4>3
    <3>3. CASE down > HOLD
      <4>1. held /\ cnt = down - 1 - HOLD /\ prev /\ Threshold = REPEAT - 1
        BY <3>3, PressSizes DEF PressInv, Pressing, Threshold
      <4>2. down \in Int /\ down <= HOLD + REPEAT
        BY PressSizes DEF PressInv, Pressing
      <4>3. CASE down = HOLD + REPEAT
        <5>0. ~(cnt < Threshold)
          BY <4>1, <4>3, PressSizes
        <5>1. Fire
          BY <2>0, <2>2, <4>1, <5>0 DEF Edge, Release, Press, Count
        <5>2. cnt' = 0 /\ pulse' /\ held' /\ down' = HOLD + 1
          BY <3>0, <4>3, <5>1 DEF Fire, Longer
        <5> QED
          BY <2>9, <3>0, <5>2, PressSizes DEF Pressing
      <4>4. CASE down # HOLD + REPEAT
        <5>1. Count
          BY <2>0, <2>2, <4>1, <4>2, <4>4, PressSizes DEF Edge, Release, Press, Fire
        <5>2. cnt' = cnt + 1 /\ ~pulse' /\ held' /\ down' = down + 1
          BY <3>0, <3>3, <4>1, <4>2, <4>4, <5>1, CountOn, PressSizes DEF Count, Longer
        <5> QED
          BY <2>9, <3>0, <3>3, <4>1, <4>2, <4>4, <5>2, PressSizes DEF Pressing
      <4> QED
        BY <4>3, <4>4
    <3> QED
      BY <3>1, <3>2, <3>3, PressSizes DEF PressInv, Pressing
  <2> QED
    BY <2>0, <2>1, <2>2
<1> QED
  BY <1>2, <1>3

(* button_press.sv pulses on the first edge of a press, HOLD edges later   *)
(* and every REPEAT edges from then on, and on no other: for every hold    *)
(* and repeat that fit the counter and every bouncing button.              *)
THEOREM PulsesCorrect == PressSpec => []PulsesWhenDue
<1>1. PressInit => PressInv
  <2> SUFFICES ASSUME PressInit PROVE Pressing
    BY PressIsEdge, InvInit DEF PressInv
  <2>1. /\ prev \in BOOLEAN /\ held \in BOOLEAN /\ pulse \in BOOLEAN
        /\ ~prev /\ ~held /\ ~pulse /\ cnt = 0 /\ down = 0
    BY DEF PressInit
  <2> QED
    BY <2>1, PressSizes DEF Pressing
<1>2. PressInv => PulsesWhenDue
  <2> SUFFICES ASSUME PressInv PROVE pulse <=> Due(down)
    BY DEF PulsesWhenDue
  <2>1. CASE down <= HOLD
    BY <2>1, PressSizes DEF PressInv, Pressing, Due
  <2>2. CASE down > HOLD
    <3>1. /\ down - 1 - HOLD \in Int /\ 0 <= down - 1 - HOLD
          /\ down - 1 - HOLD < REPEAT /\ down # 1
      BY <2>2, PressSizes DEF PressInv, Pressing
    <3>2. (down - 1 - HOLD) % REPEAT = down - 1 - HOLD
      BY <3>1, PressSizes
    <3>3. pulse = (down = HOLD + 1)
      BY <2>2 DEF PressInv, Pressing
    <3>4. down - 1 - HOLD = 0 <=> down = HOLD + 1
      BY PressSizes DEF PressInv, Pressing
    <3> QED
      BY <2>2, <3>1, <3>2, <3>3, <3>4 DEF Due
  <2> QED
    BY <2>1, <2>2, PressSizes DEF PressInv, Pressing
<1> QED
  BY <1>1, <1>2, PressStep, PTL DEF PressSpec

(* What is proved of the debouncer holds of it in front of button_press.   *)
THEOREM PressDebounced == PressSpec => []Responds /\ NoBounce /\ Refines
<1>1. PressSpec => Spec
  BY PressIsEdge, PTL DEF PressSpec, Spec
<1> QED
  BY <1>1, RespondsCorrect, NoBounceCorrect, RefinesDebounced, PTL
=============================================================================
