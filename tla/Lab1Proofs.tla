----------------------------- MODULE Lab1Proofs -----------------------------
(***************************************************************************)
(* Proofs about the range circuit, and about the board around it, for      *)
(* every RAM size, register width and set of start values.                 *)
(***************************************************************************)
EXTENDS Lab1, TLAPS

(* go is high and has been sampled: each further sample brings one more    *)
(* register of the control and of the iterator to its restart value.  The  *)
(* third is the one that clears a store the restart itself may have caused *)
(* by finding cdone still high.                                            *)
Restarting ==
  /\ go /\ age >= 1 =>
       /\ running /\ cgo /\ n = base /\ num = 0 /\ din = 1 /\ base # NoBase
  /\ go /\ age >= 2 => ~cdone
  /\ go /\ age >= 3 => ~we

(* The four moments of a run, for the number base + num.                   *)
Loading ==
  /\ cgo /\ ~we /\ ~cdone
  /\ din = 1 /\ n = base + num

Iterating ==
  /\ ~cgo /\ ~we /\ ~cdone
  /\ dout \in Good /\ n = base + num
  /\ din + Length[dout] = Length[base + num] + 1

Counted ==
  /\ ~cgo /\ ~we /\ cdone
  /\ din = Length[base + num] /\ n = base + num

Storing ==
  /\ cgo /\ we /\ cdone
  /\ din = Length[base + num] /\ n = (base + num + 1) % Words

Prefix == \A i \in 0 .. num - 1 : mem[i] = Length[base + i]

RunInv ==
  ~go /\ running /\ Covered =>
    /\ Prefix
    /\ Loading \/ Iterating \/ Counted \/ Storing

IdleInv == ~running => ~we

IInv == TypeOK /\ Restarting /\ RunInv /\ IdleInv /\ MemoryFilled
-----------------------------------------------------------------------------
(* A register holds a number that is within its width.                     *)
LEMMA ModSmall ==
  ASSUME NEW m \in Nat, NEW a \in Nat, a < m
  PROVE  a % m = a
  OBVIOUS

(* A number reduced to the width of a register is in its range.            *)
LEMMA ModRange ==
  ASSUME NEW m \in Nat \ {0}, NEW a \in Nat
  PROVE  a % m \in 0 .. m - 1
  OBVIOUS

(* The sizes are positive numbers.                                         *)
LEMMA Sizes ==
  /\ RAM_WORDS \in Nat \ {0} /\ Words \in Nat \ {0} /\ Counts \in Nat \ {0}
  /\ Words > 4 /\ Counts > 1 /\ MinHold \in Nat /\ MinHold >= 3
  BY RangeAssumption

(* Start and reference numbers fit the registers.                          *)
LEMMA Subsets == Starts \subseteq 0 .. Words - 1 /\ Good \subseteq 2 .. Words - 1
  BY RangeAssumption

(* One iteration of the circuit stays in its register width and in the     *)
(* type of the register.                                                   *)
LEMMA StepType ==
  ASSUME NEW d \in 0 .. Words - 1
  PROVE  c1!Step(d) \in 0 .. Words - 1
<1>1. CASE d % 2 = 1
  BY <1>1, RangeAssumption, ModRange DEF c1!Step
<1>2. CASE d % 2 # 1
  BY <1>2, RangeAssumption DEF c1!Step
<1> QED
  BY <1>1, <1>2

(* On a number whose sequence ends, other than 2, one iteration of the     *)
(* circuit is one element of the sequence: the width loses nothing.        *)
LEMMA GoodStep ==
  ASSUME NEW g \in Good, g # 2
  PROVE  c1!Step(g) \in Good /\ Length[g] = 1 + Length[c1!Step(g)]
<1>0. g \in 2 .. Words - 1 /\ Words \in Nat
  BY RangeAssumption
<1>1. CASE g % 2 = 1
  <2>1. 3 * g + 1 \in Good /\ Length[g] = 1 + Length[3 * g + 1]
    BY <1>1, RangeAssumption
  <2>2. 3 * g + 1 \in Nat /\ 3 * g + 1 < Words
    BY <1>0, <2>1, RangeAssumption
  <2>3. (3 * g + 1) % Words = 3 * g + 1
    BY <1>0, <2>2, ModSmall
  <2> QED
    BY <1>1, <2>1, <2>3 DEF c1!Step
<1>2. CASE g % 2 # 1
  <2>1. g % 2 = 0
    BY <1>0, <1>2
  <2> QED
    BY <1>2, <2>1, RangeAssumption DEF c1!Step
<1> QED
  BY <1>1, <1>2

(* 2 is one iteration away from 1, where the iterator stops.               *)
LEMMA GoodTwo ==
  ASSUME NEW g \in Good, g = 2
  PROVE  Length[g] = 2
  BY RangeAssumption

(* The power-up state has its types.                                       *)
LEMMA TypeInit == Init => TypeOK
<1> SUFFICES ASSUME Init PROVE TypeOK
  OBVIOUS
<1>1. go \in BOOLEAN /\ start \in 0 .. Words - 1 /\ age \in 0 .. MinHold
  <2>1. start \in 0 .. Words - 1
    BY Subsets DEF Init
  <2>2. age \in 0 .. MinHold
    BY Sizes DEF Init, btn!Init
  <2> QED
    BY <2>1, <2>2 DEF Init, btn!Init
<1>2. 0 \in 0 .. RAM_WORDS - 1 /\ 0 \in 0 .. Counts - 1 /\ 0 \in 0 .. Words - 1
  BY Sizes
<1>3. mem \in [0 .. RAM_WORDS - 1 -> 0 .. Counts - 1]
  BY <1>2 DEF Init
<1> QED
  BY <1>1, <1>2, <1>3 DEF Init, TypeOK, c1!Init

(* Types are kept by every edge of the clock.                              *)
LEMMA TypeStep == TypeOK /\ [Next]_vars => TypeOK'
<1> SUFFICES ASSUME TypeOK, [Next]_vars
             PROVE  TypeOK'
  OBVIOUS
<1>1. CASE UNCHANGED vars
  BY <1>1 DEF TypeOK, vars, ctrl, ram, iter
<1>2. CASE Next
  <2>1. go' \in BOOLEAN /\ start' \in 0 .. Words - 1 /\ age' \in 0 .. MinHold
    <3>1. start' \in 0 .. Words - 1
      BY <1>2, Subsets DEF Next, Inputs
    <3>2. go' \in BOOLEAN
      BY <1>2 DEF Next, Inputs, btn!Next, btn!Stay, btn!Toggle, TypeOK
    <3>3. age' \in 0 .. MinHold
      BY <1>2, Sizes DEF Next, Inputs, btn!Next, btn!Stay, btn!Toggle, TypeOK
    <3> QED
      BY <3>1, <3>2, <3>3
  <2>2. /\ running' \in BOOLEAN /\ done' \in BOOLEAN /\ cgo' \in BOOLEAN
        /\ we' \in BOOLEAN
    BY <1>2 DEF Next, Tick, Control, Restart, Store, Collect, CountIteration,
                Wait, DoneNext, Finished, LastWord, TypeOK
  <2>3. /\ n + 1 \in Nat /\ num + 1 \in Nat /\ din + 1 \in Nat
        /\ start \in Nat
    BY Sizes DEF TypeOK
  <2>4. /\ (n + 1) % Words \in 0 .. Words - 1
        /\ (num + 1) % RAM_WORDS \in 0 .. RAM_WORDS - 1
        /\ (din + 1) % Counts \in 0 .. Counts - 1
        /\ start % RAM_WORDS \in 0 .. RAM_WORDS - 1
    BY <2>3, Sizes, ModRange
  <2>5. n' \in 0 .. Words - 1
    <3>1. n' \in {n, start, (n + 1) % Words}
      BY <1>2 DEF Next, Tick, Control, Restart, Store, Collect, CountIteration, Wait
    <3> QED
      BY <2>4, <3>1 DEF TypeOK
  <2>6. num' \in 0 .. RAM_WORDS - 1
    <3>1. num' \in {num, 0, (num + 1) % RAM_WORDS}
      BY <1>2 DEF Next, Tick, Control, Restart, Store, Collect, CountIteration, Wait
    <3>2. 0 \in 0 .. RAM_WORDS - 1
      BY Sizes
    <3> QED
      BY <2>4, <3>1, <3>2 DEF TypeOK
  <2>7. din' \in 0 .. Counts - 1
    <3>1. din' \in {din, 1, (din + 1) % Counts}
      BY <1>2 DEF Next, Tick, Control, Restart, Store, Collect, CountIteration, Wait
    <3>2. 1 \in 0 .. Counts - 1
      BY Sizes
    <3> QED
      BY <2>4, <3>1, <3>2 DEF TypeOK
  <2>8. addr \in 0 .. RAM_WORDS - 1
    BY <2>4 DEF addr, TypeOK
  <2>9. /\ mem' \in [0 .. RAM_WORDS - 1 -> 0 .. Counts - 1]
        /\ count' \in 0 .. Counts - 1
    BY <1>2, <2>8 DEF Next, Tick, RamPort, TypeOK
  <2>10. dout' \in 0 .. Words - 1 /\ cdone' \in BOOLEAN
    BY <1>2, StepType
       DEF Next, Tick, c1!Tick, c1!Load, c1!Rest, c1!Iterate, TypeOK
  <2>11. base' \in {NoBase} \cup 0 .. Words - 1
    BY <1>2 DEF Next, Tick, TypeOK
  <2> QED
    BY <2>1, <2>2, <2>5, <2>6, <2>7, <2>9, <2>10, <2>11 DEF TypeOK
<1> QED
  BY <1>1, <1>2

(* Every register of the circuit keeps its type.                           *)
THEOREM TypeCorrect == Spec => []TypeOK
  BY TypeInit, TypeStep, PTL DEF Spec

-----------------------------------------------------------------------------
(* The power-up state satisfies the invariant.                             *)
LEMMA InvInit == Init => IInv
<1> SUFFICES ASSUME Init PROVE IInv
  OBVIOUS
<1>1. TypeOK
  BY TypeInit
<1>2. Restarting /\ RunInv /\ IdleInv
  BY DEF Init, btn!Init, Restarting, RunInv, IdleInv
<1>3. MemoryFilled
  BY DEF Init, MemoryFilled, Covered
<1> QED
  BY <1>1, <1>2, <1>3 DEF IInv

(* The numbers of a covered run, one by one.                               *)
LEMMA CoveredNumber ==
  ASSUME TypeOK, Covered, NEW k \in 0 .. RAM_WORDS - 1
  PROVE  /\ base \in Nat /\ base + k \in Good /\ base + k \in Nat
         /\ base + k < Words
<1>1. base \in Nat
  BY Sizes DEF TypeOK, Covered
<1>2. base + k \in base .. base + RAM_WORDS - 1
  BY <1>1, Sizes
<1>3. base + k \in Good
  BY <1>2 DEF Covered
<1>4. base + k \in 2 .. Words - 1
  BY <1>3, Subsets
<1> QED
  BY <1>1, <1>3, <1>4, Sizes

(* An edge that samples go high.                                           *)
LEMMA RestartStep ==
  ASSUME IInv, Next, go
  PROVE  Restarting' /\ RunInv' /\ IdleInv' /\ MemoryFilled'
<1>0. TypeOK /\ TypeOK'
  BY TypeStep DEF IInv
<1>1. Restart /\ base' = start /\ c1!Tick(cgo, n)
  BY DEF Next, Tick, Control, Store, Collect, CountIteration, Wait
<1>2. /\ running' /\ cgo' /\ n' = base' /\ num' = 0 /\ din' = 1
      /\ base' # NoBase
  BY <1>0, <1>1 DEF Restart, TypeOK, NoBase
<1>3. age >= 1 => ~cdone'
  BY <1>1 DEF IInv, Restarting, c1!Tick, c1!Load
<1>4. age >= 2 => ~we'
  BY <1>1 DEF IInv, Restarting, Restart, Finished
<1>5. btn!Stay => go' /\ age' <= age + 1
  <2>1. btn!Stay => go'
    BY DEF btn!Stay
  <2>2. btn!Stay => age' <= age + 1
    <3>1. age \in Nat
      BY <1>0, Sizes DEF TypeOK
    <3> QED
      BY <3>1 DEF btn!Stay
  <2> QED
    BY <2>1, <2>2
<1>6. btn!Toggle => ~go' /\ age >= 2
  <2>1. btn!Toggle => ~go'
    BY DEF btn!Toggle
  <2>2. btn!Toggle => age >= 2
    BY <1>0, Sizes DEF btn!Toggle, TypeOK
  <2> QED
    BY <2>1, <2>2
<1> btn!Stay \/ btn!Toggle
  BY DEF Next, Inputs, btn!Next
<1>7. Restarting'
  <2>1. go' /\ age' >= 2 => ~cdone'
    BY <1>0, <1>3, <1>5, <1>6 DEF TypeOK
  <2>2. go' /\ age' >= 3 => ~we'
    BY <1>0, <1>4, <1>5, <1>6 DEF TypeOK
  <2> QED
    BY <1>2, <2>1, <2>2 DEF Restarting
<1>8. ~go' => Loading'
  <2> SUFFICES ASSUME ~go' PROVE Loading'
    OBVIOUS
  <2>1. ~cdone' /\ ~we'
    BY <1>0, <1>3, <1>4, <1>5, <1>6 DEF TypeOK
  <2>2. n' = base' + num'
    BY <1>0, <1>1, <1>2 DEF TypeOK
  <2> QED
    BY <1>2, <2>1, <2>2 DEF Loading
<1>9. Prefix'
  BY <1>2 DEF Prefix
<1> QED
  BY <1>2, <1>7, <1>8, <1>9 DEF RunInv, IdleInv, MemoryFilled

(* What an edge with go low keeps, whatever branch it takes.               *)
LEMMA LowStep ==
  ASSUME IInv, Next, ~go
  PROVE  /\ TypeOK /\ TypeOK' /\ base' = base /\ Covered' = Covered
         /\ Restarting' /\ c1!Tick(cgo, n) /\ RamPort
<1>0. TypeOK /\ TypeOK'
  BY TypeStep DEF IInv
<1>1. base' = base /\ c1!Tick(cgo, n) /\ RamPort
  BY DEF Next, Tick
<1>2. go' => age' = 0
  BY <1>0 DEF Next, Inputs, btn!Next, btn!Stay, btn!Toggle, TypeOK
<1> QED
  BY <1>0, <1>1, <1>2 DEF Restarting, Covered

(* A word is stored; the run goes on with the next number or ends.         *)
LEMMA StoreStep ==
  ASSUME IInv, Next, Store
  PROVE  RunInv' /\ IdleInv' /\ MemoryFilled'
<1>0. /\ ~go /\ we /\ TypeOK /\ TypeOK' /\ base' = base /\ Covered' = Covered
      /\ c1!Tick(cgo, n) /\ RamPort
  BY LowStep DEF Store
<1>1. IdleInv'
  BY DEF Store, IdleInv
<1>2. running
  BY <1>0 DEF IInv, IdleInv
<1>3. SUFFICES ASSUME Covered
               PROVE  RunInv' /\ MemoryFilled'
  BY <1>0, <1>1 DEF RunInv, MemoryFilled
<1>4. Prefix /\ Storing
  BY <1>0, <1>2, <1>3 DEF IInv, RunInv, Loading, Iterating, Counted
<1>5. mem' = [mem EXCEPT ![num] = Length[base + num]]
  BY <1>0, <1>4 DEF RamPort, addr, Storing
<1>6. \A i \in 0 .. num : mem'[i] = Length[base + i]
  <2> TAKE i \in 0 .. num
  <2>1. mem \in [0 .. RAM_WORDS - 1 -> 0 .. Counts - 1] /\ num \in 0 .. RAM_WORDS - 1
    BY <1>0 DEF TypeOK
  <2>2. CASE i = num
    BY <1>5, <2>1, <2>2
  <2>3. CASE i # num
    <3>1. i \in 0 .. num - 1 /\ i \in 0 .. RAM_WORDS - 1
      BY <2>1, <2>3, Sizes
    <3> QED
      BY <1>4, <1>5, <2>1, <2>3, <3>1 DEF Prefix
  <2> QED
    BY <2>2, <2>3
<1>7. CASE num = RAM_WORDS - 1
  <2>1. ~running'
    BY <1>0, <1>7 DEF Store, LastWord
  <2> QED
    BY <1>0, <1>6, <1>7, <2>1 DEF RunInv, MemoryFilled
<1>8. CASE num # RAM_WORDS - 1
  <2>1. running'
    BY <1>0, <1>2, <1>8 DEF Store, LastWord
  <2>2. num + 1 \in 0 .. RAM_WORDS - 1 /\ num + 1 \in Nat /\ num + 1 < RAM_WORDS
    BY <1>0, <1>8, Sizes DEF TypeOK
  <2>3. num' = num + 1
    BY <2>2, Sizes, ModSmall DEF Store
  <2>4. Prefix'
    BY <1>0, <1>6, <2>3, Sizes DEF Prefix, TypeOK
  <2>5. base + (num + 1) \in Good /\ base + (num + 1) \in Nat
        /\ base + (num + 1) < Words /\ base \in Nat
    BY <1>0, <1>3, <2>2, CoveredNumber
  <2>6. n = base + (num + 1)
    <3>1. base + num + 1 = base + (num + 1)
      BY <1>0, <2>5 DEF TypeOK
    <3>2. (base + (num + 1)) % Words = base + (num + 1)
      BY <2>5, Sizes, ModSmall
    <3> QED
      BY <1>4, <3>1, <3>2 DEF Storing
  <2>7. dout' = n /\ ~cdone'
    BY <1>0, <1>4 DEF c1!Tick, c1!Load, Storing
  <2>8. Iterating'
    <3>1. ~cgo' /\ ~we' /\ din' = 1 /\ n' = n
      BY DEF Store
    <3>2. Length[base + (num + 1)] \in Nat
      BY <2>5, RangeAssumption
    <3>3. din' + Length[dout'] = Length[base' + num'] + 1
      BY <1>0, <2>3, <2>6, <2>7, <3>1, <3>2
    <3> QED
      BY <1>0, <2>3, <2>5, <2>6, <2>7, <3>1, <3>3 DEF Iterating
  <2> QED
    BY <2>1, <2>4, <2>8 DEF RunInv, MemoryFilled
<1> QED
  BY <1>1, <1>7, <1>8

(* The iterator has reported the end of the current number.                *)
LEMMA CollectStep ==
  ASSUME IInv, Next, Collect
  PROVE  RunInv' /\ IdleInv' /\ MemoryFilled'
<1>0. /\ ~go /\ ~we /\ cdone /\ running /\ running' = running
      /\ TypeOK /\ base' = base /\ Covered' = Covered
      /\ c1!Tick(cgo, n) /\ RamPort
  BY LowStep DEF Collect, Finished
<1>1. IdleInv' /\ MemoryFilled'
  BY <1>0 DEF IdleInv, MemoryFilled
<1>2. SUFFICES ASSUME Covered PROVE Prefix' /\ Storing'
  BY <1>0, <1>1 DEF RunInv
<1>3. Prefix /\ Counted
  BY <1>0, <1>2 DEF IInv, RunInv, Loading, Iterating, Storing
<1>4. mem' = mem /\ num' = num /\ din' = din
  BY <1>0 DEF RamPort, Collect
<1>5. cdone'
  BY <1>0, <1>3 DEF c1!Tick, c1!Rest, Counted
<1>6. n' = (base' + num' + 1) % Words
  BY <1>0, <1>3, <1>4 DEF Collect, Counted
<1> QED
  BY <1>0, <1>3, <1>4, <1>5, <1>6 DEF Collect, Prefix, Counted, Storing

(* The iterator makes an iteration and the control counts it.              *)
LEMMA CountStep ==
  ASSUME IInv, Next, CountIteration
  PROVE  RunInv' /\ IdleInv' /\ MemoryFilled'
<1>0. /\ ~go /\ ~we /\ ~cdone /\ ~cgo /\ running /\ running' = running
      /\ TypeOK /\ base' = base /\ Covered' = Covered
      /\ c1!Tick(cgo, n) /\ RamPort
  BY LowStep DEF CountIteration
<1>1. IdleInv' /\ MemoryFilled'
  BY <1>0 DEF IdleInv, MemoryFilled
<1>2. SUFFICES ASSUME Covered PROVE Prefix' /\ (Iterating' \/ Counted')
  BY <1>0, <1>1 DEF RunInv
<1>3. Prefix /\ Iterating
  BY <1>0, <1>2 DEF IInv, RunInv, Loading, Counted, Storing
<1>4. mem' = mem /\ num' = num /\ n' = n /\ ~cgo' /\ ~we'
  BY <1>0 DEF RamPort, CountIteration
<1>5. Prefix'
  BY <1>0, <1>3, <1>4 DEF Prefix
<1>6. dout' = c1!Step(dout) /\ cdone' = (dout = 2)
  BY <1>0 DEF c1!Tick, c1!Iterate
<1>7. base + num \in Good
  BY <1>0, <1>2, CoveredNumber DEF TypeOK
<1>8. /\ Length[base + num] \in 2 .. Counts - 1
      /\ Length[dout] \in 2 .. Counts - 1
  BY <1>3, <1>7, RangeAssumption DEF Iterating
<1>9. din' = din + 1
  <2>1. din + 1 \in Nat /\ din + 1 < Counts
    <3>1. din \in Nat /\ Counts \in Nat
      BY <1>0, Sizes DEF TypeOK
    <3>2. din + Length[dout] = Length[base + num] + 1
      BY <1>3 DEF Iterating
    <3> QED
      BY <1>8, <3>1, <3>2
  <2>2. din' = (din + 1) % Counts
    BY DEF CountIteration
  <2> QED
    BY <2>1, <2>2, Sizes, ModSmall
<1>10. CASE dout = 2
  <2>1. Length[dout] = 2
    BY <1>3, <1>10, GoodTwo DEF Iterating
  <2>2. din' = Length[base + num]
    BY <1>0, <1>3, <1>8, <1>9, <2>1 DEF Iterating, TypeOK
  <2> QED
    BY <1>0, <1>3, <1>4, <1>5, <1>6, <1>10, <2>2 DEF Iterating, Counted
<1>11. CASE dout # 2
  <2>1. c1!Step(dout) \in Good /\ Length[dout] = 1 + Length[c1!Step(dout)]
    BY <1>3, <1>11, GoodStep DEF Iterating
  <2>2. Length[c1!Step(dout)] \in 2 .. Counts - 1
    BY <2>1, RangeAssumption
  <2>3. din' + Length[dout'] = Length[base + num] + 1
    <3>1. din \in Nat /\ din + Length[dout] = Length[base + num] + 1
      BY <1>0, <1>3, Sizes DEF Iterating, TypeOK
    <3>2. Length[dout'] = Length[c1!Step(dout)]
      BY <1>6
    <3>3. din' + Length[dout'] = din + Length[dout]
      BY <1>9, <2>1, <2>2, <3>1, <3>2, Sizes
    <3> QED
      BY <1>0, <3>1, <3>3, <1>4
  <2> QED
    BY <1>0, <1>3, <1>4, <1>5, <1>6, <1>11, <2>1, <2>3 DEF Iterating
<1> QED
  BY <1>10, <1>11

(* The control waits: idle, or for the iterator to load the first number.  *)
LEMMA WaitStep ==
  ASSUME IInv, Next, Wait
  PROVE  RunInv' /\ IdleInv' /\ MemoryFilled'
<1>0. /\ ~go /\ ~we /\ ~Finished /\ (running => cgo) /\ running' = running
      /\ TypeOK /\ base' = base /\ Covered' = Covered
      /\ c1!Tick(cgo, n) /\ RamPort
  BY LowStep DEF Wait
<1>1. mem' = mem /\ num' = num /\ n' = n /\ din' = din /\ ~cgo' /\ ~we'
  BY <1>0 DEF RamPort, Wait
<1>2. IdleInv' /\ MemoryFilled'
  BY <1>0, <1>1 DEF IInv, IdleInv, MemoryFilled
<1>3. SUFFICES ASSUME Covered, running PROVE Prefix' /\ Iterating'
  BY <1>0, <1>2 DEF RunInv
<1>4. Prefix /\ Loading
  BY <1>0, <1>3 DEF IInv, RunInv, Iterating, Counted, Storing
<1>5. Prefix'
  BY <1>0, <1>1, <1>4 DEF Prefix
<1>6. dout' = base + num /\ ~cdone'
  BY <1>0, <1>4 DEF c1!Tick, c1!Load, Loading
<1>7. base + num \in Good
  BY <1>0, <1>3, CoveredNumber DEF TypeOK
<1>8. Length[base + num] \in 2 .. Counts - 1
  BY <1>7, RangeAssumption
<1>9. din' + Length[dout'] = Length[base + num] + 1
  BY <1>1, <1>4, <1>6, <1>8, Sizes DEF Loading
<1> QED
  BY <1>0, <1>1, <1>4, <1>5, <1>6, <1>7, <1>9 DEF Iterating, Loading

(* Every edge of the clock keeps the invariant.                            *)
LEMMA InvStep == IInv /\ [Next]_vars => IInv'
<1> SUFFICES ASSUME IInv, [Next]_vars
             PROVE  IInv'
  OBVIOUS
<1>0. TypeOK'
  BY TypeStep DEF IInv
<1>1. CASE UNCHANGED vars
  BY <1>0, <1>1
     DEF vars, ctrl, ram, iter, IInv, Restarting, RunInv, IdleInv, Prefix,
         Loading, Iterating, Counted, Storing, MemoryFilled, Covered
<1>2. CASE Next /\ go
  BY <1>0, <1>2, RestartStep DEF IInv
<1>3. CASE Next /\ ~go
  <2>1. Restarting'
    BY <1>3, LowStep
  <2>2. Store \/ Collect \/ CountIteration \/ Wait
    BY <1>3 DEF Next, Tick, Control, Restart
  <2>3. RunInv' /\ IdleInv' /\ MemoryFilled'
    BY <1>3, <2>2, StoreStep, CollectStep, CountStep, WaitStep
  <2> QED
    BY <1>0, <2>1, <2>3 DEF IInv
<1> QED
  BY <1>1, <1>2, <1>3

(* The invariant that carries the other results.                           *)
THEOREM RangeInvariant == Spec => []IInv
  BY InvInit, InvStep, PTL DEF Spec

(* Idle after a run, the RAM holds the Collatz lengths of the numbers from *)
(* the start value on, for every RAM size, register width and start value  *)
(* and every pattern of restarts that holds go for three edges.            *)
THEOREM MemoryCorrect == Spec => []MemoryFilled
  BY RangeInvariant, PTL DEF IInv

(* Every word stored with go released is the length it stands for.         *)
THEOREM StoresCorrect == Spec => StoresLength
<1>1. IInv /\ [Next]_vars => [~go /\ we /\ Covered => mem'[num] = Length[base + num]]_vars
  <2> SUFFICES ASSUME IInv, Next, ~go, we, Covered
               PROVE  mem'[num] = Length[base + num]
    OBVIOUS
  <2>1. running /\ TypeOK
    BY DEF IInv, IdleInv
  <2>2. Storing
    BY <2>1 DEF IInv, RunInv, Loading, Iterating, Counted
  <2>3. mem' = [mem EXCEPT ![num] = din]
    BY DEF Next, Tick, RamPort, addr
  <2> QED
    BY <2>1, <2>2, <2>3 DEF Storing, TypeOK
<1> QED
  BY <1>1, RangeInvariant, PTL DEF Spec, StoresLength

-----------------------------------------------------------------------------
(* The edges until the count of the current number is on the RAM's port.   *)
EdgesLeft == IF we THEN 0 ELSE IF cdone THEN 1
             ELSE IF cgo THEN Length[base + num] + 1 ELSE Length[dout]

(* One edge closer to the store; on to the next number; the end of a run.  *)
Advance ==
  \/ EdgesLeft > 0 /\ EdgesLeft' = EdgesLeft - 1 /\ running' /\ num' = num
  \/ EdgesLeft = 0 /\ EdgesLeft' = Length[base + num'] /\ running' /\ num' = num + 1
  \/ EdgesLeft = 0 /\ num = RAM_WORDS - 1 /\ ~running' /\ done'

(* A run keeps its pace: every edge of range.sv that go does not interrupt *)
(* brings the current number one edge closer to its store, the store goes  *)
(* on with the next number, which takes as many edges as its sequence is   *)
(* long, and the last store ends the run with done.  So a run neither      *)
(* hangs nor skips a number, however it began.                             *)
RunAdvances == [][running /\ Covered /\ ~go => Advance]_vars

(* The length of a good number is a number.                                *)
LEMMA GoodLength ==
  ASSUME NEW g \in Good
  PROVE  Length[g] \in Nat
<1>1. Length[g] \in 2 .. Counts - 1
  BY RangeAssumption
<1> QED
  BY <1>1, Sizes

(* One uninterrupted edge of a run, branch by branch of range.sv.          *)
LEMMA AdvanceStep ==
  ASSUME IInv, Next, running, Covered, ~go
  PROVE  Advance
<1>0. /\ TypeOK /\ base' = base /\ c1!Tick(cgo, n)
      /\ base + num \in Good /\ RunInv /\ num \in 0 .. RAM_WORDS - 1
  <2>1. TypeOK /\ RunInv /\ num \in 0 .. RAM_WORDS - 1
    BY DEF IInv, TypeOK
  <2>2. base' = base /\ c1!Tick(cgo, n)
    BY LowStep
  <2> QED
    BY <2>1, <2>2, CoveredNumber
<1>1. Length[base + num] \in Nat
  BY <1>0, GoodLength
<1>2. CASE Store
  <2>1. we /\ EdgesLeft = 0 /\ Storing
    BY <1>0, <1>2 DEF Store, EdgesLeft, RunInv, Loading, Iterating, Counted
  <2>2. CASE num = RAM_WORDS - 1
    BY <1>2, <2>1, <2>2 DEF Store, LastWord, DoneNext, Advance
  <2>3. CASE num # RAM_WORDS - 1
    <3>1. num + 1 \in 0 .. RAM_WORDS - 1 /\ num + 1 \in Nat /\ num + 1 < RAM_WORDS
      BY <1>0, <2>3, Sizes
    <3>2. num' = num + 1 /\ running' /\ ~we' /\ ~cgo'
      BY <1>2, <2>3, <3>1, Sizes, ModSmall DEF Store, LastWord
    <3>3. dout' = n /\ ~cdone'
      BY <1>0, <2>1 DEF c1!Tick, c1!Load, Storing
    <3>4. base + (num + 1) \in Nat /\ base + (num + 1) < Words /\ base \in Nat
      BY <1>0, <3>1, CoveredNumber
    <3>5. n = base + num'
      <4>1. base + num + 1 = base + (num + 1)
        BY <1>0, <3>4
      <4>2. (base + (num + 1)) % Words = base + (num + 1)
        BY <3>4, Sizes, ModSmall
      <4> QED
        BY <2>1, <3>2, <4>1, <4>2 DEF Storing
    <3> QED
      BY <1>0, <2>1, <3>2, <3>3, <3>5 DEF EdgesLeft, Advance
  <2> QED
    BY <2>2, <2>3
<1>3. CASE Collect
  <2>1. EdgesLeft = 1 /\ EdgesLeft' = 0 /\ running' /\ num' = num
    BY <1>3 DEF Collect, Finished, EdgesLeft
  <2> QED
    BY <2>1 DEF Advance
<1>4. CASE CountIteration
  <2>1. /\ ~we /\ ~cdone /\ ~cgo /\ ~we' /\ ~cgo' /\ running' /\ num' = num
    BY <1>4 DEF CountIteration
  <2>2. EdgesLeft = Length[dout] /\ dout \in Good
    BY <1>0, <2>1 DEF EdgesLeft, RunInv, Loading, Iterating, Counted, Storing
  <2>3. dout' = c1!Step(dout) /\ (cdone' <=> dout = 2)
    BY <1>0, <2>1 DEF c1!Tick, c1!Iterate
  <2>4. CASE dout = 2
    <3>1. EdgesLeft = 2
      BY <2>2, <2>4, GoodTwo
    <3>2. EdgesLeft' = 1
      BY <2>1, <2>3, <2>4 DEF EdgesLeft
    <3> QED
      BY <2>1, <3>1, <3>2 DEF Advance
  <2>5. CASE dout # 2
    <3>1. c1!Step(dout) \in Good /\ Length[dout] = 1 + Length[c1!Step(dout)]
      BY <2>2, <2>5, GoodStep
    <3>2. Length[c1!Step(dout)] \in Nat
      BY <3>1, GoodLength
    <3>3. EdgesLeft' = Length[c1!Step(dout)]
      BY <2>1, <2>3, <2>5 DEF EdgesLeft
    <3>4. EdgesLeft > 0 /\ EdgesLeft' = EdgesLeft - 1
      BY <2>2, <3>1, <3>2, <3>3
    <3> QED
      BY <2>1, <3>4 DEF Advance
  <2> QED
    BY <2>4, <2>5
<1>5. CASE Wait
  <2>1. ~we /\ ~cdone /\ cgo /\ Loading /\ ~we' /\ ~cgo' /\ running' /\ num' = num
    BY <1>0, <1>5 DEF Wait, Finished, RunInv, Loading, Iterating, Counted, Storing
  <2>2. dout' = base + num /\ ~cdone'
    BY <1>0, <2>1 DEF c1!Tick, c1!Load, Loading
  <2>3. EdgesLeft = Length[base + num] + 1 /\ EdgesLeft' = Length[base + num]
    BY <2>1, <2>2 DEF EdgesLeft
  <2>4. EdgesLeft > 0 /\ EdgesLeft' = EdgesLeft - 1
    BY <1>1, <2>3
  <2> QED
    BY <2>1, <2>4 DEF Advance
<1> QED
  BY <1>2, <1>3, <1>4, <1>5 DEF Next, Tick, Control, Restart

(* The pace of a run, for every RAM size, register width and start value.  *)
THEOREM AdvancesCorrect == Spec => RunAdvances
<1>1. IInv /\ [Next]_vars => [running /\ Covered /\ ~go => Advance]_vars
  BY AdvanceStep
<1> QED
  BY <1>1, RangeInvariant, PTL DEF Spec, RunAdvances

-----------------------------------------------------------------------------
(* The board.  While no go has met the last word of a run:                 *)
(* - done is up for one edge, after the run and before the keys are live;  *)
(* - a go that ends the time of the keys is at its first or, on the edge   *)
(*   of done, at its second sample, so that a key which overrides it there *)
(*   is itself overridden by the samples that follow;                      *)
(* - from its fourth sample on, go has loaded what the switches show.      *)
Tracking ==
  /\ ~(done /\ running) /\ ~(ready /\ done)
  /\ ready => start = start_index /\ (running => go)
  /\ ready /\ go => age <= 1
  /\ ~ready /\ ~go => start_index = 0
  /\ go /\ age >= 3 => start = sampledSW

BoardTypeOK ==
  /\ SW \in Switches /\ ready \in BOOLEAN /\ clash \in BOOLEAN
  /\ start_index \in 0 .. RAM_WORDS - 1
  /\ start \in Switches \cup 0 .. RAM_WORDS - 1
  /\ ready => start \in 0 .. RAM_WORDS - 1

BoardInv == IInv /\ BoardTypeOK /\ (~clash => Tracking)

(* An address is a number below the size of the RAM, which is one of the   *)
(* values of start.                                                        *)
LEMMA Addresses ==
  /\ 0 .. RAM_WORDS - 1 \subseteq 0 .. Words - 1
  /\ Switches \cup 0 .. RAM_WORDS - 1 \subseteq Starts
  /\ MinHold >= 4
  BY BoardAssumption, Subsets

(* The keys move the address by one, within the RAM.                       *)
LEMMA KeyMoves ==
  ASSUME TypeOK, BoardTypeOK, Add \/ Sub \/ Reset
  PROVE  /\ ready /\ start' \in 0 .. RAM_WORDS - 1
         /\ start_index' \in 0 .. RAM_WORDS - 1
         /\ start = start_index => start' = start_index'
<1>0. /\ RAM_WORDS \in Int /\ RAM_WORDS >= 1 /\ Words \in Int
      /\ start_index \in Int /\ 0 <= start_index /\ start_index < RAM_WORDS
  BY Sizes DEF BoardTypeOK
<1>1. RAM_WORDS - 1 < Words
  BY <1>0, Addresses
<1>2. ready /\ start \in Int /\ 0 <= start /\ start < RAM_WORDS
  BY <1>0 DEF BoardTypeOK, Add, Sub, Reset
<1>3. /\ (start_index + 1) % RAM_WORDS \in 0 .. RAM_WORDS - 1
      /\ (start_index - 1) % RAM_WORDS \in 0 .. RAM_WORDS - 1
  BY <1>0
<1>4. CASE Add
  <2>1. start < RAM_WORDS - 1 /\ start_index' = (start_index + 1) % RAM_WORDS
        /\ start' = (start + 1) % Words
    BY <1>4 DEF Add
  <2>2. (start + 1) % Words = start + 1 /\ (start + 1) % RAM_WORDS = start + 1
    BY <1>0, <1>1, <1>2, <2>1
  <2> QED
    BY <1>0, <1>2, <1>3, <2>1, <2>2
<1>5. CASE Sub
  <2>1. start > 0 /\ start_index' = (start_index - 1) % RAM_WORDS /\ start' = start - 1
    BY <1>5 DEF Sub
  <2>2. (start - 1) % RAM_WORDS = start - 1
    BY <1>0, <1>2, <2>1
  <2> QED
    BY <1>0, <1>2, <1>3, <2>1, <2>2
<1>6. CASE Reset
  BY <1>0, <1>2, <1>6 DEF Reset
<1> QED
  BY <1>4, <1>5, <1>6

(* The board's registers keep their types.                                 *)
LEMMA BoardType ==
  ASSUME TypeOK, BoardTypeOK, LabNext
  PROVE  BoardTypeOK'
<1>1. SW' \in Switches /\ ready' \in BOOLEAN /\ clash' \in BOOLEAN
  BY DEF LabNext, Keys, Board, ReadyNext, LastWord, BoardTypeOK, TypeOK
<1>2. CASE Add \/ Sub \/ Reset
  BY <1>1, <1>2, KeyMoves DEF BoardTypeOK
<1>3. CASE Keep
  <2>1. start' = LoadedStart /\ start_index' = LoadedIndex
    BY <1>3 DEF Keep
  <2>2. 0 \in 0 .. RAM_WORDS - 1
    BY Sizes
  <2>3. start_index' \in 0 .. RAM_WORDS - 1
    BY <2>1, <2>2 DEF LoadedIndex, BoardTypeOK
  <2>4. start' \in Switches \cup 0 .. RAM_WORDS - 1
    BY <2>1, <2>2 DEF LoadedStart, BoardTypeOK
  <2>5. ready' => start' \in 0 .. RAM_WORDS - 1
    BY <2>1, <2>2 DEF LoadedStart, BoardTypeOK, LabNext, Board, ReadyNext
  <2> QED
    BY <1>1, <2>3, <2>4, <2>5 DEF BoardTypeOK
<1> QED
  BY <1>2, <1>3 DEF LabNext, Board

(* An edge of the board is an edge of range: lab1.sv only puts numbers on  *)
(* start that range is verified for.                                       *)
LEMMA BoardIsRange ==
  ASSUME TypeOK, BoardTypeOK, [LabNext]_lvars
  PROVE  [Next]_vars
<1>1. CASE LabNext
  <2>1. start' \in Starts
    BY <1>1, BoardType, Addresses DEF BoardTypeOK
  <2> QED
    BY <1>1, <2>1 DEF LabNext, Keys, Next, Inputs
<1>2. CASE UNCHANGED lvars
  BY <1>2 DEF lvars
<1> QED
  BY <1>1, <1>2

(* The first sample of go starts a run, and nothing else does.             *)
LEMMA RunBegins ==
  ASSUME IInv, Tick
  PROVE  /\ go => running'
         /\ ~go /\ ~running => ~running'
         /\ go /\ ~running => age = 0
         /\ LastWord => running
         /\ done' = DoneNext /\ (~go /\ LastWord => ~running')
<1>1. LastWord => running
  BY DEF IInv, IdleInv, LastWord
<1>2. go /\ ~running => age = 0
  <2>1. age \in Nat
    BY Sizes DEF IInv, TypeOK
  <2> QED
    BY <2>1 DEF IInv, Restarting
<1>3. ~go /\ LastWord => ~running'
  BY DEF Tick, Control, Restart, Store, Collect, CountIteration, Wait, Finished, LastWord
<1>4. go => running'
  BY DEF Tick, Control, Restart, Store, Collect, CountIteration, Wait
<1>5. ~go /\ ~running => ~running'
  BY DEF Tick, Control, Restart, Store, Collect, CountIteration, Wait, Finished
<1>6. done' = DoneNext
  BY DEF Tick, Control, Restart, Store, Collect, CountIteration, Wait
<1> QED
  BY <1>1, <1>2, <1>3, <1>4, <1>5, <1>6

(* The edges of the go key.                                                *)
LEMMA GoEdges ==
  ASSUME TypeOK, btn!Next
  PROVE  /\ go' = go => age' <= age + 1
         /\ go' # go => age >= 3 /\ age' = 0
         /\ age \in Int /\ age' \in Int
<1>1. age \in Int /\ MinHold \in Int /\ MinHold >= 4
  BY Sizes, Addresses DEF TypeOK
<1>2. CASE btn!Stay
  BY <1>1, <1>2 DEF btn!Stay
<1>3. CASE btn!Toggle
  <2>1. age + 1 >= MinHold /\ age' = 0 /\ go' = ~go
    BY <1>3 DEF btn!Toggle
  <2>2. go' # go
    BY <2>1 DEF TypeOK
  <2> QED
    BY <1>1, <2>1, <2>2
<1> QED
  BY <1>2, <1>3 DEF btn!Next

(* Every edge on which go does not meet the last word keeps the board in   *)
(* step with range.                                                        *)
LEMMA TrackingStep ==
  ASSUME BoardInv, LabNext, ~clash'
  PROVE  Tracking'
<1>0. /\ IInv /\ TypeOK /\ BoardTypeOK /\ Tracking /\ Tick /\ Board /\ btn!Next
      /\ ~(go /\ LastWord) /\ sampledSW' = SW
  BY DEF BoardInv, LabNext, Keys, IInv
<1>1. /\ go \in BOOLEAN /\ go' \in BOOLEAN /\ running \in BOOLEAN /\ running' \in BOOLEAN
      /\ done \in BOOLEAN /\ done' \in BOOLEAN /\ ready \in BOOLEAN /\ ready' \in BOOLEAN
  <2>1. [Next]_vars /\ BoardTypeOK'
    BY <1>0, BoardIsRange, BoardType
  <2> QED
    BY <1>0, <2>1, TypeStep DEF TypeOK, BoardTypeOK
<1>2. ready' = ReadyNext /\ done' = DoneNext
  BY <1>0, RunBegins DEF Board
<1>3. ~(done' /\ running')
  BY <1>0, <1>1, <1>2, RunBegins DEF Tracking, DoneNext
<1>4. ready' => ~running \/ (ready /\ ~go)
  BY <1>0, <1>2 DEF ReadyNext, Tracking
<1>5. ready' => ~running
  BY <1>0, <1>4 DEF Tracking
<1>6. ~(ready' /\ done')
  BY <1>0, <1>2, <1>5, RunBegins DEF DoneNext
<1>7. go /\ ~go' => age >= 3
  BY <1>0, <1>1, GoEdges
<1>8. ready' /\ running' => go'
  <2> SUFFICES ASSUME ready', running', ~go' PROVE FALSE
    BY <1>1
  <2>1. ~running /\ go
    BY <1>0, <1>5, RunBegins
  <2>2. age = 0
    BY <1>0, <2>1, RunBegins
  <2>3. age >= 3
    BY <1>7, <2>1
  <2> QED
    BY <2>2, <2>3
<1>9. ready' /\ go' => age' <= 1
  <2> SUFFICES ASSUME ready', go' PROVE age' <= 1
    OBVIOUS
  <2>1. CASE go
    <3>1. age = 0
      BY <1>0, <1>5, <2>1, RunBegins
    <3>2. age' <= age + 1
      BY <1>0, <1>1, <2>1, GoEdges
    <3> QED
      BY <1>0, <3>1, <3>2, GoEdges
  <2>2. CASE ~go
    <3>1. age' = 0
      BY <1>0, <1>1, <2>2, GoEdges
    <3> QED
      BY <3>1
  <2> QED
    BY <1>1, <2>1, <2>2
<1>10. ready' => start' = start_index'
  <2> SUFFICES ASSUME ready' PROVE start' = start_index'
    OBVIOUS
  <2>1. CASE Add \/ Sub \/ Reset
    BY <1>0, <2>1, KeyMoves DEF Tracking
  <2>2. CASE Keep
    <3>1. start' = LoadedStart /\ start_index' = LoadedIndex
      BY <2>2 DEF Keep
    <3>2. CASE done
      <4>1. ~ready
        BY <1>0, <3>2 DEF Tracking
      <4> QED
        BY <1>0, <3>1, <3>2, <4>1 DEF LoadedStart, LoadedIndex, Tracking
    <3>3. CASE ~done
      <4>1. ready /\ ~go
        BY <1>2, <3>3 DEF ReadyNext
      <4> QED
        BY <1>0, <3>1, <3>3, <4>1 DEF LoadedStart, LoadedIndex, Tracking
    <3> QED
      BY <1>1, <3>2, <3>3
  <2> QED
    BY <1>0, <2>1, <2>2 DEF Board
<1>11. ~ready' /\ ~go' => start_index' = 0
  <2> SUFFICES ASSUME ~ready', ~go' PROVE start_index' = 0
    OBVIOUS
  <2>1. ~ready
    <3> SUFFICES ASSUME ready PROVE FALSE
      BY <1>1
    <3>1. go
      BY <1>2 DEF ReadyNext
    <3>2. age >= 3 /\ age <= 1 /\ age \in Int
      BY <1>0, <1>7, <3>1, GoEdges DEF Tracking
    <3> QED
      BY <3>2
  <2>2. Keep
    BY <1>0, <2>1 DEF Board, Add, Sub, Reset
  <2> QED
    BY <1>0, <2>1, <2>2 DEF Keep, LoadedIndex, Tracking
<1>12. go' /\ age' >= 3 => start' = sampledSW'
  <2> SUFFICES ASSUME go', age' >= 3 PROVE start' = sampledSW'
    OBVIOUS
  <2>1. go /\ age >= 2 /\ age \in Int
    <3>1. go' = go
      <4>1. age' # 0
        BY <1>0, GoEdges
      <4> QED
        BY <1>0, <4>1, GoEdges
    <3>2. age' <= age + 1 /\ age \in Int /\ age' \in Int
      BY <1>0, <3>1, GoEdges
    <3> QED
      BY <3>1, <3>2
  <2>2. ~(age <= 1) /\ ~(age = 0)
    BY <2>1
  <2>3. ~ready /\ running
    BY <1>0, <2>1, <2>2, RunBegins DEF Tracking
  <2>4. Keep /\ ~done
    BY <1>0, <2>3 DEF Board, Add, Sub, Reset, Tracking
  <2> QED
    BY <1>0, <2>1, <2>4 DEF Keep, LoadedStart
<1> QED
  BY <1>3, <1>6, <1>8, <1>9, <1>10, <1>11, <1>12 DEF Tracking

(* The board's invariant holds at power-up and is kept.                    *)
LEMMA BoardInvInit == LabInit => BoardInv
<1> SUFFICES ASSUME LabInit PROVE BoardInv
  OBVIOUS
<1>1. IInv
  BY InvInit DEF LabInit
<1>2. BoardTypeOK
  <2>1. 0 \in 0 .. RAM_WORDS - 1
    BY Sizes
  <2> QED
    BY <2>1 DEF LabInit, BoardTypeOK
<1>3. Tracking
  BY DEF LabInit, Init, btn!Init, Tracking
<1> QED
  BY <1>1, <1>2, <1>3 DEF BoardInv

(* Every edge of the clock keeps the invariant of the board.               *)
LEMMA BoardInvStep == BoardInv /\ [LabNext]_lvars => BoardInv'
<1> SUFFICES ASSUME BoardInv, [LabNext]_lvars PROVE BoardInv'
  OBVIOUS
<1>1. IInv'
  BY BoardIsRange, InvStep DEF BoardInv, IInv
<1>2. CASE LabNext
  BY <1>1, <1>2, BoardType, TrackingStep DEF BoardInv, IInv
<1>3. CASE UNCHANGED lvars
  <2>1. BoardTypeOK' /\ (~clash' => Tracking')
    BY <1>3 DEF lvars, vars, ctrl, top, BoardInv, BoardTypeOK, Tracking
  <2> QED
    BY <1>1, <2>1 DEF BoardInv
<1> QED
  BY <1>2, <1>3

(* The inductive invariant of the board.                                   *)
THEOREM BoardInvariant == LabSpec => []BoardInv
  BY BoardInvInit, BoardInvStep, PTL DEF LabSpec

(* The board is a surrounding range.sv is verified for: what is proved of  *)
(* range holds on it.                                                      *)
THEOREM BoardRunsRange == LabSpec => Spec
<1>1. LabInit => Init
  BY DEF LabInit
<1>2. BoardInv /\ [LabNext]_lvars => [Next]_vars
  BY BoardIsRange DEF BoardInv, IInv
<1> QED
  BY <1>1, <1>2, BoardInvariant, PTL DEF LabSpec, Spec

(* While the keys are live, the RAM address and the index lab1.sv shows    *)
(* are the same number, for every RAM size and whichever keys, go and done *)
(* come together.                                                          *)
THEOREM IndexCorrect == LabSpec => []IndexTracks
<1>1. BoardInv => IndexTracks
  BY DEF BoardInv, Tracking, IndexTracks
<1> QED
  BY <1>1, BoardInvariant, PTL

(* What lab1.sv shows between runs is the length for the index.            *)
THEOREM ShowsCorrect == LabSpec => ShowsLength
<1>1. BoardInv /\ [LabNext]_lvars =>
        [ready /\ ~running /\ ~clash /\ Covered =>
           count' = Length[base + start_index]]_lvars
  <2> SUFFICES ASSUME BoardInv, LabNext, ready, ~running, ~clash, Covered
               PROVE  count' = Length[base + start_index]
    OBVIOUS
  <2>1. ~we /\ start = start_index /\ start_index \in 0 .. RAM_WORDS - 1
    BY DEF BoardInv, Tracking, IInv, IdleInv, BoardTypeOK
  <2>2. start % RAM_WORDS = start
    BY <2>1, Sizes, ModSmall
  <2>3. count' = mem[start_index]
    BY <2>1, <2>2 DEF LabNext, Tick, RamPort, addr
  <2> QED
    BY <2>1, <2>3 DEF BoardInv, IInv, MemoryFilled
<1> QED
  BY <1>1, BoardInvariant, PTL DEF LabSpec, ShowsLength

(* A run begins at the number on the switches, unless go has met the edge  *)
(* that stores the last word of a run.                                     *)
THEOREM LoadsCorrect == LabSpec => LoadsSwitches
<1>1. BoardInv /\ [LabNext]_lvars => [go /\ ~go' /\ ~clash' => base' = sampledSW]_lvars
  <2> SUFFICES ASSUME BoardInv, LabNext, go, ~go', ~clash' PROVE base' = sampledSW
    OBVIOUS
  <2>1. TypeOK /\ btn!Next /\ Tracking /\ base' = start
    BY DEF BoardInv, IInv, LabNext, Keys, Tick
  <2>2. age >= 3
    BY <2>1, GoEdges
  <2> QED
    BY <2>1, <2>2 DEF Tracking
<1> QED
  BY <1>1, BoardInvariant, PTL DEF LabSpec, LoadsSwitches

-----------------------------------------------------------------------------
(* The board with the circuit behind its go key (lab1.sv:34), in the place *)
(* of the contract of Lab1: the flip-flops of debouncer.sv, its output on  *)
(* go, and a timer of MinHold values.                                      *)
VARIABLES switch, sync_0, sync_1, timer, past

key == INSTANCE Debouncer WITH Ticks <- MinHold, next <- go

KeyedInit == LabInit /\ key!Init

KeyedNext ==
  /\ key!Next
  /\ Tick /\ Board /\ SW' \in Switches
  /\ sampledSW' = SW /\ clash' = (clash \/ (go /\ LastWord))

keyed == <<lvars, key!vars>>

KeyedSpec == KeyedInit /\ [][KeyedNext]_keyed

(* The timer never runs ahead of the samples of the level on go.           *)
Behind ==
  /\ go \in BOOLEAN /\ sync_1 \in BOOLEAN /\ sync_0 \in BOOLEAN /\ switch \in BOOLEAN
  /\ age \in 0 .. MinHold /\ timer \in 0 .. MinHold - 1 /\ timer <= age

(* An edge of the debouncer leaves the timer behind, and is one that its   *)
(* contract allows.                                                        *)
LEMMA KeyStep ==
  ASSUME Behind, key!Next
  PROVE  Behind' /\ btn!Next
<1>0. MinHold \in Nat /\ MinHold >= 1
  BY Sizes
<1>1. /\ go \in BOOLEAN /\ sync_1 \in BOOLEAN /\ sync_0 \in BOOLEAN
      /\ switch \in BOOLEAN
      /\ age \in Nat /\ age <= MinHold /\ timer \in Nat /\ timer < MinHold
      /\ timer <= age
  BY <1>0 DEF Behind
<1>2. sync_1' \in BOOLEAN /\ sync_0' \in BOOLEAN /\ switch' \in BOOLEAN
  BY <1>1 DEF key!Next, key!Synchronize
<1>3. age' = IF go' # go THEN 0 ELSE IF age < MinHold THEN age + 1 ELSE age
  BY DEF key!Next
<1>4. CASE go' = go /\ timer' \in {0, timer + 1} /\ timer' < MinHold
  <2>1. btn!Stay
    BY <1>3, <1>4 DEF btn!Stay
  <2>2. age' \in 0 .. MinHold /\ timer' \in 0 .. MinHold - 1 /\ timer' <= age'
    BY <1>0, <1>1, <1>3, <1>4
  <2> QED
    BY <1>1, <1>2, <1>4, <2>1, <2>2 DEF Behind, btn!Next
<1>5. CASE go' = ~go /\ timer = MinHold - 1 /\ timer' = 0
  <2>1. go' # go /\ age' = 0
    BY <1>1, <1>3, <1>5
  <2>2. age + 1 >= MinHold
    BY <1>0, <1>1, <1>5
  <2>3. btn!Toggle
    BY <1>5, <2>1, <2>2 DEF btn!Toggle
  <2>4. age' \in 0 .. MinHold /\ timer' \in 0 .. MinHold - 1 /\ timer' <= age'
    BY <1>0, <1>5, <2>1
  <2> QED
    BY <1>1, <1>2, <1>5, <2>3, <2>4 DEF Behind, btn!Next
<1>6. CASE key!Agree
  BY <1>0, <1>4, <1>6 DEF key!Agree
<1>7. CASE key!Disagree
  <2>1. /\ timer' = (timer + 1) % MinHold
        /\ go' = IF timer = MinHold - 1 THEN ~go ELSE go
    BY <1>7 DEF key!Disagree
  <2>2. CASE timer = MinHold - 1
    <3>1. timer' = 0
      BY <1>0, <2>1, <2>2
    <3> QED
      BY <1>5, <2>1, <2>2, <3>1
  <2>3. CASE timer # MinHold - 1
    <3>1. timer' = timer + 1 /\ timer' < MinHold
      BY <1>0, <1>1, <2>1, <2>3, ModSmall
    <3> QED
      BY <1>4, <2>1, <2>3, <3>1
  <2> QED
    BY <2>2, <2>3
<1> QED
  BY <1>6, <1>7 DEF key!Next

(* What is proved of the board under the contract holds with the circuit:  *)
(* whatever the go button does, bounces included, a board with the         *)
(* debouncer of lab1.sv behaves as LabSpec says.                           *)
THEOREM KeyedBoard == KeyedSpec => LabSpec
<1>1. KeyedInit => LabInit /\ Behind
  <2> SUFFICES ASSUME KeyedInit PROVE LabInit /\ Behind
    OBVIOUS
  <2>1. /\ LabInit /\ go = FALSE /\ sync_1 = FALSE /\ sync_0 = FALSE
        /\ switch = FALSE /\ age = 0 /\ timer = 0
    BY DEF KeyedInit, key!Init
  <2>2. age \in 0 .. MinHold /\ timer \in 0 .. MinHold - 1 /\ timer <= age
    BY <2>1, Sizes
  <2> QED
    BY <2>1, <2>2, Zenon DEF Behind
<1>2. Behind /\ [KeyedNext]_keyed => Behind' /\ [LabNext]_lvars
  <2> SUFFICES ASSUME Behind, [KeyedNext]_keyed PROVE Behind' /\ [LabNext]_lvars
    OBVIOUS
  <2>1. CASE KeyedNext
    <3>1. Behind' /\ btn!Next
      BY <2>1, KeyStep DEF KeyedNext
    <3> QED
      BY <2>1, <3>1 DEF KeyedNext, LabNext, Keys
  <2>2. CASE UNCHANGED keyed
    BY <2>2 DEF keyed, lvars, vars, key!vars, Behind
  <2> QED
    BY <2>1, <2>2
<1> QED
  BY <1>1, <1>2, PTL DEF KeyedSpec, LabSpec

-----------------------------------------------------------------------------
(* The powers of two that select a segment.                                *)
LEMMA Powers == /\ 2^0 = 1 /\ 2^1 = 2 /\ 2^2 = 4 /\ 2^3 = 8
                /\ 2^4 = 16 /\ 2^5 = 32 /\ 2^6 = 64
  OBVIOUS

(* Segment i of line is low.                                               *)
Bit(line, i) == (line \div 2^i) % 2 = 0

(* The lit segments, one by one.                                           *)
LEMMA SevenBits ==
  ASSUME NEW line
  PROVE  \A i : i \in Lit(line) <=>
           \/ i = 0 /\ Bit(line, 0)
           \/ i = 1 /\ Bit(line, 1)
           \/ i = 2 /\ Bit(line, 2)
           \/ i = 3 /\ Bit(line, 3)
           \/ i = 4 /\ Bit(line, 4)
           \/ i = 5 /\ Bit(line, 5)
           \/ i = 6 /\ Bit(line, 6)
<1>1. \A i : i \in 0 .. 6 <=>
               i = 0 \/ i = 1 \/ i = 2 \/ i = 3 \/ i = 4 \/ i = 5 \/ i = 6
  OBVIOUS
<1>2. \A i : i \in Lit(line) <=> i \in 0 .. 6 /\ Bit(line, i)
  BY Zenon DEF Lit, Bit
<1> QED
  BY <1>1, <1>2

(* Every line of the table draws its digit.                                *)
LEMMA Digits == \A d \in 0 .. 15 : Shows(y(d), d)
<1>1. Shows(y(0), 0)
  BY SevenBits, Powers DEF Bit, Shows, y, table, Shape
<1>2. Shows(y(1), 1)
  BY SevenBits, Powers DEF Bit, Shows, y, table, Shape
<1>3. Shows(y(2), 2)
  BY SevenBits, Powers DEF Bit, Shows, y, table, Shape
<1>4. Shows(y(3), 3)
  BY SevenBits, Powers DEF Bit, Shows, y, table, Shape
<1>5. Shows(y(4), 4)
  BY SevenBits, Powers DEF Bit, Shows, y, table, Shape
<1>6. Shows(y(5), 5)
  BY SevenBits, Powers DEF Bit, Shows, y, table, Shape
<1>7. Shows(y(6), 6)
  BY SevenBits, Powers DEF Bit, Shows, y, table, Shape
<1>8. Shows(y(7), 7)
  BY SevenBits, Powers DEF Bit, Shows, y, table, Shape
<1>9. Shows(y(8), 8)
  BY SevenBits, Powers DEF Bit, Shows, y, table, Shape
<1>10. Shows(y(9), 9)
  BY SevenBits, Powers DEF Bit, Shows, y, table, Shape
<1>11. Shows(y(10), 10)
  BY SevenBits, Powers DEF Bit, Shows, y, table, Shape
<1>12. Shows(y(11), 11)
  BY SevenBits, Powers DEF Bit, Shows, y, table, Shape
<1>13. Shows(y(12), 12)
  BY SevenBits, Powers DEF Bit, Shows, y, table, Shape
<1>14. Shows(y(13), 13)
  BY SevenBits, Powers DEF Bit, Shows, y, table, Shape
<1>15. Shows(y(14), 14)
  BY SevenBits, Powers DEF Bit, Shows, y, table, Shape
<1>16. Shows(y(15), 15)
  BY SevenBits, Powers DEF Bit, Shows, y, table, Shape
<1> QED
  BY <1>1, <1>2, <1>3, <1>4, <1>5, <1>6, <1>7, <1>8, <1>9, <1>10, <1>11,
     <1>12, <1>13, <1>14, <1>15, <1>16

(* The places of the three digits of a number.                             *)
LEMMA HexPowers == 16^0 = 1 /\ 16^1 = 16 /\ 16^2 = 256
  OBVIOUS

(* Digit i of v.                                                           *)
Digit(v, i) == (v \div 16^i) % 16

(* The low twelve bits of a number have its last three digits.             *)
LEMMA LowDigits ==
  \A v \in Nat : \A i \in 0 .. 2 :
    Digit(v % 4096, i) = Digit(v, i) /\ Digit(v, i) \in 0 .. 15
<1> SUFFICES ASSUME NEW v \in Nat, NEW i \in 0 .. 2
             PROVE  Digit(v % 4096, i) = Digit(v, i) /\ Digit(v, i) \in 0 .. 15
  OBVIOUS
<1>1. CASE i = 0
  BY <1>1, HexPowers DEF Digit
<1>2. CASE i = 1
  BY <1>2, HexPowers DEF Digit
<1>3. CASE i = 2
  BY <1>3, HexPowers DEF Digit
<1> QED
  BY <1>1, <1>2, <1>3

(* What the displays of lab1.sv draw: the hexadecimal digits of count, and *)
(* of the number on the switches plus the index.                           *)
DrawsHex ==
  \A i \in 0 .. 2 : /\ Shows(HEX(i), Digit(count, i))
                    /\ Shows(HEX(i + 3), Digit(SW + start_index, i))

(* Every display draws its hexadecimal digit, whatever is shown: the three *)
(* nibbles lab1.sv:56-62 takes from count and start_display, each with its *)
(* line of the table of hex7seg.sv.  lab1.sv:55 and 59 call them decimal.  *)
THEOREM DigitsCorrect == LabSpec => []DrawsHex
<1>1. BoardInv => DrawsHex
  <2> SUFFICES ASSUME BoardInv, NEW i \in 0 .. 2
               PROVE  /\ Shows(HEX(i), Digit(count, i))
                      /\ Shows(HEX(i + 3), Digit(SW + start_index, i))
    BY DEF DrawsHex
  <2>1. count \in Nat /\ SW + start_index \in Nat
    BY Sizes, Subsets, BoardAssumption DEF BoardInv, IInv, TypeOK, BoardTypeOK
  <2>2. i % 3 = i /\ (i + 3) % 3 = i /\ ~(i >= 3) /\ i + 3 >= 3
    OBVIOUS
  <2>3. /\ HEX(i) = y(Digit(count % 4096, i))
        /\ HEX(i + 3) = y(Digit((SW + start_index) % 4096, i))
    BY <2>2 DEF HEX, start_display, Digit
  <2>4. Digit(count % 4096, i) = Digit(count, i) /\ Digit(count, i) \in 0 .. 15
    BY <2>1, LowDigits
  <2>5. /\ Digit((SW + start_index) % 4096, i) = Digit(SW + start_index, i)
        /\ Digit(SW + start_index, i) \in 0 .. 15
    BY <2>1, LowDigits
  <2> QED
    BY <2>3, <2>4, <2>5, Digits
<1> QED
  BY <1>1, BoardInvariant, PTL
-----------------------------------------------------------------------------
(* The iterator of range on the bench of collatz.cpp.                      *)
CONSTANTS Numbers, Edges
VARIABLES edge, printed

bench == INSTANCE CollatzBench WITH done <- cdone

(* The sequence so far is one of good numbers; after the last of them the  *)
(* iterator has printed a 1 and is done.                                   *)
Printing ==
  /\ printed \in Seq(Int) /\ Len(printed) >= 1
  /\ \A k \in 1 .. Len(printed) - 1 :
       /\ printed[k] \in Good
       /\ printed[k + 1] = IF printed[k] % 2 = 0 THEN printed[k] \div 2
                          ELSE 3 * printed[k] + 1
  /\ printed[Len(printed)] = dout
  /\ \/ ~cdone /\ dout \in Good
     \/ cdone /\ dout = 1 /\ Len(printed) > 1 /\ edge > 3

BenchInv ==
  /\ n \in Good /\ edge \in Nat /\ cdone \in BOOLEAN
  /\ edge < 2 => dout = 0 /\ ~cdone
  /\ edge < 3 => printed = <<n>>
  /\ edge = 2 => dout = n /\ ~cdone
  /\ edge >= 3 => Printing

(* The Collatz step of a good number.                                      *)
LEMMA NextNumber ==
  ASSUME NEW g \in Good
  PROVE  /\ g \in Int /\ g >= 2
         /\ bench!Step(g) = IF g % 2 = 0 THEN g \div 2 ELSE 3 * g + 1
         /\ g # 2 => bench!Step(g) \in Good
         /\ g = 2 => bench!Step(g) = 1
<1>1. g \in 2 .. Words - 1 /\ Words \in Nat
  BY Subsets, Sizes
<1>2. g % 2 = 1 => 3 * g + 1 \in Good /\ 3 * g + 1 \in 2 .. Words - 1
  BY Subsets, RangeAssumption
<1>3. g # 2 /\ g % 2 = 0 => g \div 2 \in Good
  BY RangeAssumption
<1>4. g % 2 = 0 \/ g % 2 = 1
  BY <1>1
<1>5. g % 2 = 1 => (3 * g + 1) % Words = 3 * g + 1
  BY <1>1, <1>2
<1> QED
  BY <1>1, <1>2, <1>3, <1>4, <1>5 DEF bench!Step

(* 1 is not good: the iterator would take it through 4 and 2.              *)
LEMMA NotOne == 1 \notin Good
  BY Subsets

(* Printing goes on by one number.                                         *)
LEMMA PrintStep ==
  ASSUME Printing, ~cdone, edge \in Nat, edge >= 3,
         dout' = bench!Step(dout), cdone' = (dout = 2),
         printed' = Append(printed, dout'), edge' = edge + 1
  PROVE  Printing'
<1>1. dout \in Good
  BY DEF Printing
<1>2. dout \in Int /\ dout >= 2
  BY <1>1, NextNumber
<1>3. dout' = IF dout % 2 = 0 THEN dout \div 2 ELSE 3 * dout + 1
  BY <1>1, NextNumber
<1>4. dout' \in Int
  BY <1>2, <1>3
<1> DEFINE l == Len(printed)
<1>5. /\ printed \in Seq(Int) /\ l \in Nat /\ l >= 1
      /\ printed' \in Seq(Int) /\ Len(printed') = l + 1
      /\ printed'[l + 1] = dout'
      /\ \A k \in 1 .. l : printed'[k] = printed[k]
  BY <1>4 DEF Printing
<1> HIDE DEF l
<1>6. printed[l] = dout
  BY DEF Printing, l
<1>7. ASSUME NEW k \in 1 .. l
      PROVE  /\ printed'[k] \in Good
             /\ printed'[k + 1] = IF printed'[k] % 2 = 0 THEN printed'[k] \div 2
                                 ELSE 3 * printed'[k] + 1
  <2>1. CASE k = l
    BY <1>1, <1>3, <1>5, <1>6, <2>1
  <2>2. CASE k # l
    <3>1. k \in 1 .. l - 1 /\ k + 1 \in 1 .. l
      BY <1>5, <2>2
    <3>2. /\ printed[k] \in Good
          /\ printed[k + 1] = IF printed[k] % 2 = 0 THEN printed[k] \div 2
                             ELSE 3 * printed[k] + 1
      BY <3>1 DEF Printing, l
    <3> QED
      BY <1>5, <3>1, <3>2
  <2> QED
    BY <2>1, <2>2
<1>8. \/ ~cdone' /\ dout' \in Good
      \/ cdone' /\ dout' = 1 /\ Len(printed') > 1 /\ edge' > 3
  <2>1. dout # 2 => dout' \in Good /\ ~cdone'
    BY <1>1, NextNumber
  <2>2. dout = 2 => dout' = 1 /\ cdone'
    BY <1>1, NextNumber
  <2>3. Len(printed') > 1 /\ edge' > 3
    BY <1>5
  <2> QED
    BY <2>1, <2>2, <2>3
<1>9. Len(printed') - 1 = l /\ Len(printed') >= 1 /\ printed'[Len(printed')] = dout'
  BY <1>5
<1>10. \A k \in 1 .. Len(printed') - 1 :
         /\ printed'[k] \in Good
         /\ printed'[k + 1] = IF printed'[k] % 2 = 0 THEN printed'[k] \div 2
                             ELSE 3 * printed'[k] + 1
  BY <1>7, <1>9, Zenon
<1>11. printed' \in Seq(Int)
  BY <1>5
<1> QED
  BY <1>8, <1>9, <1>10, <1>11, Zenon DEF Printing

(* The bench starts with one of its numbers, printed first.                *)
LEMMA BenchInvInit == Numbers \subseteq Good /\ bench!BenchInit => BenchInv
<1> SUFFICES ASSUME Numbers \subseteq Good, bench!BenchInit PROVE BenchInv
  OBVIOUS
<1>1. dout = 0 /\ ~cdone /\ cdone \in BOOLEAN /\ n \in Good /\ edge = 0 /\ printed = <<n>>
  BY Zenon DEF bench!BenchInit, bench!Init
<1>2. edge \in Nat /\ edge # 2 /\ ~(edge >= 3)
  BY <1>1
<1> QED
  BY <1>1, <1>2, Zenon DEF BenchInv

(* go comes with the second and the third edge; from the fourth on each    *)
(* edge prints.                                                            *)
LEMMA BenchInvStep == BenchInv /\ [bench!Next]_(bench!vars) => BenchInv'
<1> SUFFICES ASSUME BenchInv, [bench!Next]_(bench!vars) PROVE BenchInv'
  OBVIOUS
<1>1. CASE UNCHANGED bench!vars
  BY <1>1 DEF bench!vars, BenchInv, Printing
<1>2. CASE bench!Next
  <2>1. /\ edge \in Nat /\ edge' = edge + 1 /\ n' = n /\ n \in Good
        /\ printed' = IF edge >= 3 THEN Append(printed, dout') ELSE printed
        /\ ~bench!Stopped /\ bench!Tick(bench!go, n)
    BY <1>2 DEF bench!Next, bench!Edge, BenchInv
  <2>2. n \in Int /\ n >= 2
    BY <2>1, NextNumber
  <2>3. CASE edge = 0
    <3>1. ~bench!go /\ dout = 0 /\ ~cdone
      BY <2>3 DEF bench!go, BenchInv
    <3>2. dout' = bench!Step(dout) /\ cdone' = (dout = 2)
      BY <2>1, <3>1 DEF bench!Tick, bench!Iterate
    <3>3. bench!Step(0) = 0
      BY DEF bench!Step
    <3> QED
      BY <2>1, <2>3, <3>1, <3>2, <3>3 DEF BenchInv
  <2>4. CASE edge = 1 \/ edge = 2
    <3>1. bench!go
      BY <2>4 DEF bench!go
    <3>2. dout' = n /\ cdone' = FALSE
      BY <2>1, <3>1 DEF bench!Tick, bench!Load
    <3>3. printed' = <<n>>
      BY <2>1, <2>4 DEF BenchInv
    <3>4. /\ printed' \in Seq(Int) /\ Len(printed') = 1 /\ 1 .. Len(printed') - 1 = {}
          /\ printed'[Len(printed')] = n
      BY <2>2, <3>3
    <3>5. Len(printed') >= 1
      BY <3>4
    <3>6. Printing'
      BY <2>1, <3>2, <3>4, <3>5, Zenon DEF Printing
    <3>7. edge' \in Nat /\ ~(edge' < 2)
      BY <2>1, <2>4
    <3> QED
      BY <2>1, <3>2, <3>3, <3>6, <3>7, Zenon DEF BenchInv
  <2>5. CASE edge >= 3
    <3>1. ~bench!go /\ Printing
      BY <2>1, <2>5 DEF bench!go, BenchInv
    <3>2. ~cdone
      BY <2>1, <3>1 DEF Printing, bench!Stopped
    <3>3. dout' = bench!Step(dout) /\ cdone' = (dout = 2)
      BY <2>1, <3>1, <3>2 DEF bench!Tick, bench!Iterate
    <3>4. Printing'
      BY <2>1, <2>5, <3>1, <3>2, <3>3, PrintStep
    <3> QED
      BY <2>1, <2>5, <3>3, <3>4 DEF BenchInv
  <2> QED
    BY <2>1, <2>3, <2>4, <2>5
<1> QED
  BY <1>1, <1>2

(* On the bench, collatz.sv prints the Collatz sequence of every good      *)
(* number: the width of its register loses nothing, and it stops at the    *)
(* first 1.                                                                *)
THEOREM BenchCorrect ==
  Numbers \subseteq Good => (bench!Spec => []bench!PrintsSequence)
<1>1. BenchInv => bench!PrintsSequence
  <2> SUFFICES ASSUME BenchInv PROVE bench!PrintsSequence
    OBVIOUS
  <2>1. CASE edge < 3
    <3>1. printed = <<n>> /\ Len(printed) = 1
      BY <2>1 DEF BenchInv
    <3> QED
      BY <3>1 DEF bench!PrintsSequence, bench!IsCollatz
  <2>2. CASE edge >= 3
    <3>1. Printing
      BY <2>2 DEF BenchInv
    <3>2. bench!IsCollatz(printed)
      BY <3>1, Zenon DEF Printing, bench!IsCollatz
    <3>3. Len(printed) \in Nat /\ Len(printed) >= 1
      BY <3>1 DEF Printing
    <3>4. ASSUME NEW k \in 2 .. Len(printed)
          PROVE  printed[k] = 1 <=> (k = Len(printed) /\ cdone)
      <4>1. CASE k = Len(printed)
          BY <3>1, <4>1, NotOne DEF Printing
      <4>2. CASE k # Len(printed)
        <5>1. k \in 1 .. Len(printed) - 1
          BY <3>3, <4>2
        <5>2. printed[k] \in Good
          BY <3>1, <5>1 DEF Printing
        <5> QED
          BY <4>2, <5>2, NotOne, Zenon
      <4> QED
        BY <4>1, <4>2
    <3> QED
      BY <3>2, <3>4 DEF bench!PrintsSequence
  <2> QED
    BY <2>1, <2>2 DEF BenchInv
<1> QED
  BY <1>1, BenchInvInit, BenchInvStep, PTL DEF bench!Spec

=============================================================================
