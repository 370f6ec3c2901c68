------------------------ MODULE CommandTimers_proofs ------------------------
(***************************************************************************)
(* Theorems about TimingWheel, for every wheel size and set of timers, and *)
(* about CommandTimers, which drives the wheel with the admin commands.    *)
(***************************************************************************)
EXTENDS CommandTimers, Integers, TLAPS

(***************************************************************************)
(* Arithmetic of a wheel of n slots.                                       *)
(***************************************************************************)

\* What is below n is its own remainder.
LEMMA ModSmall ==
    ASSUME NEW n \in Nat \ {0}, NEW x \in 0 .. n - 1
    PROVE  x % n = x
OBVIOUS

\* What is below n holds no full n.
LEMMA DivSmall ==
    ASSUME NEW n \in Nat \ {0}, NEW x \in 0 .. n - 1
    PROVE  x \div n = 0
OBVIOUS

\* Past one turn, the remainder is what exceeds the turn.
LEMMA ModSub ==
    ASSUME NEW n \in Nat \ {0}, NEW x \in n .. 2 * n - 1
    PROVE  x % n = x - n
OBVIOUS

\* Remainders are below n.
LEMMA ModRange ==
    ASSUME NEW n \in Nat \ {0}, NEW x \in Nat
    PROVE  x % n \in 0 .. n - 1
OBVIOUS

\* Quotients are naturals.
LEMMA DivRange ==
    ASSUME NEW n \in Nat \ {0}, NEW x \in Nat
    PROVE  x \div n \in Nat
OBVIOUS

\* One tick nearer, one position further: the same slot.
LEMMA ModStep ==
    ASSUME NEW n \in Nat \ {0}, NEW c \in 0 .. n - 1, NEW d \in 1 .. n - 1
    PROVE  (((c + 1) % n) + (d - 1)) % n = (c + d) % n
BY ModSmall, ModSub

\* Less than a turn ahead is not here.
LEMMA ModElsewhere ==
    ASSUME NEW n \in Nat \ {0}, NEW c \in 0 .. n - 1, NEW d \in 1 .. n - 1
    PROVE  (c + d) % n # c
BY ModSmall, ModSub

(***************************************************************************)
(* Types, whatever the intervals.                                          *)
(***************************************************************************)

\* The fields of a timer.
LEMMA TimerFields ==
    ASSUME NEW t \in Timer
    PROVE  /\ t.interval \in Intervals /\ t.interval \in Nat \ {0}
           /\ t.elapsed \in Nat /\ t.rounds \in Nat
BY WheelAssumption DEF Timer

\* The timers a tick re-arms in a slot are timers.
LEMMA RearmedType ==
    ASSUME WheelTypeOK, NEW p \in Positions
    PROVE  /\ DOMAIN Rearmed(p) \subseteq Ids
           /\ \A id \in DOMAIN Rearmed(p) : Rearmed(p)[id] \in Timer
BY DEF WheelTypeOK, Rearmed, Due, Timer

\* What a tick leaves in a slot are timers.
LEMMA AfterVisitType ==
    ASSUME WheelTypeOK, NEW p \in Positions
    PROVE  /\ DOMAIN AfterVisit(p) \subseteq Ids
           /\ \A id \in DOMAIN AfterVisit(p) : AfterVisit(p)[id] \in Timer
<1>1. CASE p = currentPos
  <2>1. ASSUME NEW id \in Waiting
        PROVE  [OneMore(slots[p][id]) EXCEPT !.rounds = @ - 1] \in Timer
    <3>1. slots[p][id] \in Timer /\ slots[p][id].rounds \in Nat \ {0}
      BY <1>1, <2>1 DEF Waiting, Due, WheelTypeOK, Timer
    <3>2. OneMore(slots[p][id]) \in Timer
      BY <3>1 DEF OneMore, Timer
    <3>3. OneMore(slots[p][id]).rounds \in Nat \ {0}
      BY <3>1 DEF OneMore, Timer
    <3>4. OneMore(slots[p][id]).rounds - 1 \in Nat
      BY <3>3
    <3>5. QED
      BY <3>2, <3>4 DEF Timer
  <2>2. QED
    BY <1>1, <2>1 DEF AfterVisit, Waiting, WheelTypeOK
<1>2. CASE p # currentPos
  <2>1. \A id \in DOMAIN slots[p] : OneMore(slots[p][id]) \in Timer
    BY DEF WheelTypeOK, OneMore, Timer
  <2>2. QED
    BY <1>2, <2>1, RearmedType DEF AfterVisit, Override, WheelTypeOK
<1>3. QED
  BY <1>1, <1>2

\* AddTimer makes a timer.
LEMMA NewTimerType ==
    ASSUME NEW interval \in Intervals, NEW args \in Args
    PROVE  NewTimer(interval, args) \in Timer
BY DivRange, WheelAssumption DEF NewTimer, RoundsOf, Timer

\* A step that is no tick: what the wheel holds after it was there before,
\* in the same place, or is as AddTimer makes it.
OldOrNew ==
    /\ currentPos' \in Positions
    /\ DOMAIN slots' = Positions
    /\ \A p \in Positions : \A id \in DOMAIN slots'[p] :
          /\ id \in Ids
          /\ \/ /\ currentPos' = currentPos
                /\ id \in DOMAIN slots[p] /\ slots'[p][id] = slots[p][id]
             \/ \E interval \in Intervals, args \in Args :
                   /\ slots'[p][id] = NewTimer(interval, args)
                   /\ p = (currentPos' + interval) % SlotsCount

\* Adding, removing, and removing before adding are such steps.
LEMMA AddIsOldOrNew ==
    ASSUME WheelTypeOK, UNCHANGED currentPos,
           NEW id \in Ids, NEW interval \in Intervals, NEW args \in Args,
           \/ slots' = AddTo(slots, id, interval, args)
           \/ slots' = AddTo(RemoveFrom(slots, id), id, interval, args)
    PROVE  OldOrNew
<1>1. currentPos \in Positions /\ DOMAIN slots = Positions
  BY DEF WheelTypeOK
<1>2. CASE slots' = AddTo(slots, id, interval, args)
  BY <1>1, <1>2 DEF AddTo, Override, PosAfter, OldOrNew, WheelTypeOK
<1>3. CASE slots' = AddTo(RemoveFrom(slots, id), id, interval, args)
  BY <1>1, <1>3 DEF AddTo, RemoveFrom, Without, Override, PosAfter, OldOrNew, WheelTypeOK
<1>4. QED
  BY <1>2, <1>3

\* Removing leaves only what was there.
LEMMA RemoveIsOldOrNew ==
    ASSUME WheelTypeOK, UNCHANGED currentPos, NEW id \in Ids,
           slots' = RemoveFrom(slots, id)
    PROVE  OldOrNew
BY DEF RemoveFrom, Without, OldOrNew, WheelTypeOK

\* The types of the wheel proper.
SlotTypes ==
    /\ currentPos \in Positions
    /\ DOMAIN slots = Positions
    /\ \A p \in Positions :
          /\ DOMAIN slots[p] \subseteq Ids
          /\ \A id \in DOMAIN slots[p] : slots[p][id] \in Timer

\* Such a step keeps them.
LEMMA OldOrNewTypes == ASSUME WheelTypeOK, OldOrNew PROVE SlotTypes'
BY NewTimerType DEF WheelTypeOK, OldOrNew, SlotTypes

\* So does a tick, and it starts tasks of timers only.
LEMMA TickTypes ==
    ASSUME WheelTypeOK, Tick
    PROVE  SlotTypes' /\ fired' \subseteq Ids \X Args
<1>1. /\ currentPos \in 0 .. SlotsCount - 1 /\ SlotsCount \in Nat \ {0}
      /\ currentPos' = (currentPos + 1) % SlotsCount
  BY WheelAssumption DEF WheelTypeOK, Positions, Tick
<1>2. currentPos' \in Positions
  <2>1. currentPos + 1 \in Nat
    BY <1>1
  <2>2. QED
    BY <1>1, <2>1, ModRange DEF Positions
<1>3. fired' \subseteq Ids \X Args
  BY DEF Tick, Due, WheelTypeOK, Timer
<1>4. QED
  BY <1>2, <1>3, AfterVisitType DEF Tick, SlotTypes

\* The wheel keeps its types for every interval, also those beyond a turn.
THEOREM WheelTypeCorrect == WheelSpec => []WheelTypeOK
<1>1. WheelInit => WheelTypeOK
  BY WheelAssumption DEF WheelInit, WheelTypeOK, Positions
<1>2. WheelTypeOK /\ [WheelNext]_wheelVars => WheelTypeOK'
  <2> SUFFICES ASSUME WheelTypeOK, [WheelNext]_wheelVars
               PROVE  WheelTypeOK'
    OBVIOUS
  <2>1. ASSUME NEW id \in Ids, NEW interval \in Intervals, NEW args \in Args,
               AddTimer(id, interval, args)
        PROVE  WheelTypeOK'
    BY <2>1, AddIsOldOrNew, OldOrNewTypes DEF AddTimer, SlotTypes, WheelTypeOK
  <2>2. ASSUME NEW id \in Ids, RemoveTimer(id)
        PROVE  WheelTypeOK'
    BY <2>2, RemoveIsOldOrNew, OldOrNewTypes DEF RemoveTimer, SlotTypes, WheelTypeOK
  <2>3. CASE Tick
    BY <2>3, TickTypes DEF SlotTypes, WheelTypeOK
  <2>4. CASE UNCHANGED wheelVars
    BY <2>4 DEF wheelVars, WheelTypeOK
  <2>5. QED
    BY <2>1, <2>2, <2>3, <2>4 DEF WheelNext
<1>3. QED
  BY <1>1, <1>2, PTL DEF WheelSpec

(***************************************************************************)
(* Punctuality, for intervals shorter than a turn.  The strengthening says *)
(* where every timer sits: as many positions ahead as its interval has     *)
(* ticks left, with no full turn to wait.                                  *)
(***************************************************************************)

ShortIntervals == Intervals \subseteq 1 .. SlotsCount - 1

TicksLeft(t) == t.interval - t.elapsed

WellPlaced(t, p) ==
    /\ t.rounds = 0
    /\ t.elapsed <= t.interval
    /\ p = PosAfter(TicksLeft(t))

PlacedInv ==
    \A p \in Positions : \A id \in DOMAIN slots[p] : WellPlaced(slots[p][id], p)

\* A timer in the current slot has no tick left.
LEMMA PlacedImpliesOnTime ==
    ASSUME WheelTypeOK, PlacedInv, ShortIntervals
    PROVE  \A id \in DOMAIN slots[currentPos] :
               slots[currentPos][id].elapsed = slots[currentPos][id].interval
<1> SUFFICES ASSUME NEW id \in DOMAIN slots[currentPos]
             PROVE  slots[currentPos][id].elapsed = slots[currentPos][id].interval
  OBVIOUS
<1> DEFINE t == slots[currentPos][id]
<1>1. t \in Timer /\ WellPlaced(t, currentPos) /\ currentPos \in Positions
  BY DEF WheelTypeOK, PlacedInv
<1>2. t.interval \in 1 .. SlotsCount - 1 /\ t.elapsed \in 0 .. t.interval
  BY <1>1, TimerFields DEF WellPlaced, ShortIntervals
<1>3. CASE t.elapsed < t.interval
  <2>1. TicksLeft(t) \in 1 .. SlotsCount - 1
    BY <1>2, <1>3, WheelAssumption DEF TicksLeft
  <2>2. (currentPos + TicksLeft(t)) % SlotsCount # currentPos
    BY <1>1, <2>1, ModElsewhere, WheelAssumption DEF Positions
  <2>3. QED
    BY <1>1, <2>2 DEF WellPlaced, PosAfter
<1>4. QED
  BY <1>2, <1>3

\* A tick moves each due timer to the slot of its next firing and ages the rest.
LEMMA TickKeepsPlaced ==
    ASSUME WheelTypeOK, PlacedInv, ShortIntervals, Tick
    PROVE  PlacedInv'
<1>1. /\ currentPos \in 0 .. SlotsCount - 1
      /\ SlotsCount \in Nat \ {0}
      /\ currentPos' = (currentPos + 1) % SlotsCount
      /\ slots' = [p \in Positions |-> AfterVisit(p)]
  BY WheelAssumption DEF WheelTypeOK, Positions, Tick
<1>2. Waiting = {}
  BY DEF Waiting, Due, PlacedInv, WellPlaced, WheelTypeOK
<1> SUFFICES ASSUME NEW p \in Positions, NEW id \in DOMAIN AfterVisit(p)
             PROVE  /\ AfterVisit(p)[id].rounds = 0
                    /\ AfterVisit(p)[id].elapsed <= AfterVisit(p)[id].interval
                    /\ p = (currentPos' + TicksLeft(AfterVisit(p)[id]))
                             % SlotsCount
  BY <1>1 DEF PlacedInv, WellPlaced, PosAfter, TicksLeft
<1>3. p # currentPos
  BY <1>2 DEF AfterVisit
\* Every position not yet reached keeps its place under one more tick.
<1>4. ASSUME NEW d \in 1 .. SlotsCount - 1
      PROVE  (currentPos' + (d - 1)) % SlotsCount = PosAfter(d)
  BY <1>1, <1>4, ModStep DEF PosAfter
<1>5. CASE id \in DOMAIN Rearmed(p)
  <2> DEFINE t == slots[currentPos][id]
  <2>1. /\ id \in Due
        /\ p = PosAfter(t.interval)
        /\ AfterVisit(p)[id] = [t EXCEPT !.elapsed = 1]
    BY <1>3, <1>5 DEF AfterVisit, Override, Rearmed
  <2>2. t \in Timer /\ t.rounds = 0 /\ t.interval \in 1 .. SlotsCount - 1
    BY <2>1 DEF Due, WheelTypeOK, Timer, ShortIntervals
  <2>3. p = (currentPos' + (t.interval - 1)) % SlotsCount
    BY <1>4, <2>1, <2>2
  <2>4. QED
    BY <2>1, <2>2, <2>3 DEF TicksLeft, Timer
<1>6. CASE id \notin DOMAIN Rearmed(p)
  <2> DEFINE t == slots[p][id]
  <2>1. id \in DOMAIN slots[p] /\ AfterVisit(p)[id] = OneMore(t)
    BY <1>3, <1>6 DEF AfterVisit, Override
  <2>2. t \in Timer /\ WellPlaced(t, p)
    BY <2>1 DEF WheelTypeOK, PlacedInv
  <2>3. TicksLeft(t) \in 1 .. SlotsCount - 1
    <3>1. TicksLeft(t) \in 0 .. SlotsCount - 1
      BY <2>2, TimerFields, WheelAssumption
         DEF WellPlaced, TicksLeft, ShortIntervals
    <3>2. TicksLeft(t) # 0
      BY <2>2, <1>1, <1>3, ModSmall DEF WellPlaced, PosAfter
    <3>3. QED
      BY <3>1, <3>2, <1>1
  <2>4. p = (currentPos' + (TicksLeft(t) - 1)) % SlotsCount
    BY <1>4, <2>2, <2>3 DEF WellPlaced
  <2>5. /\ OneMore(t).rounds = 0
        /\ OneMore(t).interval = t.interval
        /\ OneMore(t).elapsed = t.elapsed + 1
    BY <2>2 DEF OneMore, Timer, WellPlaced
  <2>6. TicksLeft(OneMore(t)) = TicksLeft(t) - 1
    BY <2>2, <2>5, TimerFields DEF TicksLeft
  <2>7. OneMore(t).elapsed <= OneMore(t).interval
    BY <2>2, <2>3, <2>5, TimerFields DEF TicksLeft
  <2>8. QED
    BY <2>1, <2>4, <2>5, <2>6, <2>7
<1>7. QED
  BY <1>5, <1>6

\* What AddTimer makes has no full turn to wait and its whole interval left.
LEMMA OldOrNewPlaced ==
    ASSUME WheelTypeOK, PlacedInv, ShortIntervals, OldOrNew
    PROVE  PlacedInv'
<1> SUFFICES ASSUME NEW p \in Positions, NEW id \in DOMAIN slots'[p]
             PROVE  /\ slots'[p][id].rounds = 0
                    /\ slots'[p][id].elapsed <= slots'[p][id].interval
                    /\ p = (currentPos' + TicksLeft(slots'[p][id])) % SlotsCount
  BY DEF PlacedInv, WellPlaced, PosAfter, TicksLeft
<1>1. CASE /\ currentPos' = currentPos
           /\ id \in DOMAIN slots[p] /\ slots'[p][id] = slots[p][id]
  BY <1>1 DEF PlacedInv, WellPlaced, PosAfter
<1>2. ASSUME NEW interval \in Intervals, NEW args \in Args,
             slots'[p][id] = NewTimer(interval, args),
             p = (currentPos' + interval) % SlotsCount
      PROVE  /\ slots'[p][id].rounds = 0
             /\ slots'[p][id].elapsed <= slots'[p][id].interval
             /\ p = (currentPos' + TicksLeft(slots'[p][id])) % SlotsCount
  <2>1. interval \in 0 .. SlotsCount - 1
    BY DEF ShortIntervals
  <2>2. /\ slots'[p][id].rounds = 0
        /\ slots'[p][id].elapsed = 0
        /\ slots'[p][id].interval = interval
    BY <1>2, <2>1, DivSmall, WheelAssumption DEF NewTimer, RoundsOf
  <2>3. TicksLeft(slots'[p][id]) = interval
    BY <2>1, <2>2 DEF TicksLeft
  <2>4. QED
    BY <1>2, <2>1, <2>2, <2>3
<1>3. QED
  BY <1>1, <1>2 DEF OldOrNew

\* Every timer of an interval shorter than a turn of the wheel sits where
\* the wheel will find it when its interval is over.
THEOREM AlwaysPlaced == ASSUME ShortIntervals PROVE WheelSpec => []PlacedInv
<1>1. WheelInit => PlacedInv
  BY DEF WheelInit, PlacedInv
<1>2. WheelTypeOK /\ PlacedInv /\ [WheelNext]_wheelVars => PlacedInv'
  <2> SUFFICES ASSUME WheelTypeOK, PlacedInv, [WheelNext]_wheelVars
               PROVE  PlacedInv'
    OBVIOUS
  <2>1. ASSUME NEW id \in Ids, NEW interval \in Intervals, NEW args \in Args,
               AddTimer(id, interval, args)
        PROVE  PlacedInv'
    BY <2>1, ShortIntervals, AddIsOldOrNew, OldOrNewPlaced DEF AddTimer
  <2>2. ASSUME NEW id \in Ids, RemoveTimer(id)
        PROVE  PlacedInv'
    BY <2>2, ShortIntervals, RemoveIsOldOrNew, OldOrNewPlaced DEF RemoveTimer
  <2>3. CASE Tick
    BY <2>3, ShortIntervals, TickKeepsPlaced
  <2>4. CASE UNCHANGED wheelVars
    BY <2>4 DEF wheelVars, PlacedInv, WellPlaced, PosAfter, TicksLeft
  <2>5. QED
    BY <2>1, <2>2, <2>3, <2>4 DEF WheelNext
<1>3. QED
  BY <1>1, <1>2, WheelTypeCorrect, PTL DEF WheelSpec

\* Tasks start exactly one interval after the last.
THEOREM AlwaysOnTime ==
    ASSUME ShortIntervals
    PROVE  WheelSpec => []FiresOnTime
<1>1. WheelTypeOK /\ PlacedInv => FiresOnTime
  BY ShortIntervals, PlacedImpliesOnTime DEF FiresOnTime, Due
<1>2. QED
  BY <1>1, ShortIntervals, AlwaysPlaced, WheelTypeCorrect, PTL

\* A timer of an interval shorter than a turn that is due is put back into
\* another slot, and the others stay where they are.
LEMMA TickKeepsPresent ==
    ASSUME WheelTypeOK, PlacedInv, ShortIntervals, Tick
    PROVE  Present' = Present
<1>1. slots' = [p \in Positions |-> AfterVisit(p)]
  BY DEF Tick
<1>2. Waiting = {} /\ Due = DOMAIN slots[currentPos]
  BY DEF Waiting, Due, PlacedInv, WellPlaced, WheelTypeOK
<1>3. ASSUME NEW id \in Due
      PROVE  \E p \in Positions : id \in DOMAIN AfterVisit(p)
  <2> DEFINE k == slots[currentPos][id].interval
  <2>1. k \in 1 .. SlotsCount - 1 /\ currentPos \in 0 .. SlotsCount - 1
    BY ShortIntervals
       DEF Due, WheelTypeOK, Timer, ShortIntervals, Positions
  <2>2. PosAfter(k) \in Positions /\ PosAfter(k) # currentPos
    <3> HIDE DEF k
    <3>1. currentPos + k \in Nat /\ SlotsCount \in Nat \ {0}
      BY <2>1, WheelAssumption
    <3>2. QED
      BY <2>1, <3>1, ModRange, ModElsewhere DEF PosAfter, Positions
  <2>3. id \in DOMAIN Rearmed(PosAfter(k))
    BY DEF Rearmed
  <2>4. QED
    BY <2>2, <2>3 DEF AfterVisit, Override
<1>4. ASSUME NEW p \in Positions, NEW id \in DOMAIN slots[p]
      PROVE  \E q \in Positions : id \in DOMAIN AfterVisit(q)
  BY <1>2, <1>3 DEF AfterVisit, Override
<1>5. ASSUME NEW p \in Positions, NEW id \in DOMAIN AfterVisit(p)
      PROVE  \E q \in Positions : id \in DOMAIN slots[q]
  BY <1>2 DEF AfterVisit, Override, Rearmed, WheelTypeOK
<1>6. QED
  BY <1>1, <1>4, <1>5 DEF Present, InSlot

\* A tick loses no timer of an interval shorter than a turn.
THEOREM TickNeverLoses ==
    ASSUME ShortIntervals
    PROVE  WheelSpec => TickKeepsTimers
<1>1. WheelTypeOK /\ PlacedInv /\ [WheelNext]_wheelVars
        => [Tick => Present' = Present]_wheelVars
  BY ShortIntervals, TickKeepsPresent
<1>2. QED
  BY <1>1, ShortIntervals, AlwaysPlaced, WheelTypeCorrect, PTL
     DEF WheelSpec, TickKeepsTimers

(***************************************************************************)
(* The wheel implements the countdowns.                                    *)
(***************************************************************************)

Left(n, c, p) == (p + n - c) % n

\* The ticks left until a slot is visited are fewer than a turn, and reach it.
LEMMA LeftRange ==
    ASSUME NEW n \in Nat \ {0}, NEW c \in 0 .. n - 1, NEW p \in 0 .. n - 1
    PROVE  /\ Left(n, c, p) \in 0 .. n - 1
           /\ (c + Left(n, c, p)) % n = p
           /\ Left(n, c, p) = 0 <=> p = c
<1>1. CASE p >= c
  <2>1. Left(n, c, p) = p - c
    BY <1>1, ModSub DEF Left
  <2>2. QED
    BY <1>1, <2>1, ModSmall
<1>2. CASE p < c
  <2>1. Left(n, c, p) = p + n - c
    BY <1>2, ModSmall DEF Left
  <2>2. c + Left(n, c, p) = p + n
    BY <2>1
  <2>3. (p + n) % n = p
    BY ModSub
  <2>4. QED
    BY <1>2, <2>1, <2>2, <2>3
<1>3. QED
  BY <1>1, <1>2

\* The slot d ticks ahead is visited after d ticks.
LEMMA LeftAfter ==
    ASSUME NEW n \in Nat \ {0}, NEW c \in 0 .. n - 1, NEW d \in 0 .. n - 1
    PROVE  Left(n, c, (c + d) % n) = d
<1>1. CASE c + d < n
  BY <1>1, ModSmall, ModSub DEF Left
<1>2. CASE c + d >= n
  <2>1. (c + d) % n = c + d - n
    BY <1>2, ModSub
  <2>2. QED
    BY <2>1, <1>2, ModSmall DEF Left
<1>3. QED
  BY <1>1, <1>2

\* A slot the tick does not visit is one tick nearer after it.
LEMMA LeftStep ==
    ASSUME NEW n \in Nat \ {0}, NEW c \in 0 .. n - 1, NEW p \in 0 .. n - 1,
           p # c
    PROVE  Left(n, (c + 1) % n, p) = Left(n, c, p) - 1
<1> DEFINE d == Left(n, c, p)
<1>1. d \in 1 .. n - 1 /\ (c + d) % n = p
  BY LeftRange
<1>2. (((c + 1) % n) + (d - 1)) % n = p
  BY <1>1, ModStep
<1>3. (c + 1) % n \in 0 .. n - 1 /\ d - 1 \in 0 .. n - 1
  <2> HIDE DEF d
  <2>1. c + 1 \in Nat
    OBVIOUS
  <2>2. QED
    BY <1>1, <2>1, ModRange
<1>4. QED
  BY <1>2, <1>3, LeftAfter
\* The same of the wheel's own positions.
LEMMA LeftFacts ==
    ASSUME WheelTypeOK
    PROVE  /\ \A p \in Positions :
                 /\ Left(SlotsCount, currentPos, p) \in 0 .. SlotsCount - 1
                 /\ Left(SlotsCount, currentPos, p) = 0 <=> p = currentPos
                 /\ PosAfter(Left(SlotsCount, currentPos, p)) = p
           /\ \A d \in 0 .. SlotsCount - 1 :
                 /\ PosAfter(d) \in Positions
                 /\ Left(SlotsCount, currentPos, PosAfter(d)) = d
<1>1. currentPos \in 0 .. SlotsCount - 1 /\ SlotsCount \in Nat \ {0}
  BY WheelAssumption DEF WheelTypeOK, Positions
<1>2. ASSUME NEW d \in 0 .. SlotsCount - 1
      PROVE  /\ PosAfter(d) \in Positions
             /\ Left(SlotsCount, currentPos, PosAfter(d)) = d
  <2>1. currentPos + d \in Nat
    BY <1>1
  <2>2. PosAfter(d) \in Positions
    BY <1>1, <2>1, ModRange DEF PosAfter, Positions
  <2>3. Left(SlotsCount, currentPos, PosAfter(d)) = d
    BY <1>1, LeftAfter DEF PosAfter
  <2>4. QED
    BY <2>2, <2>3
<1>3. ASSUME NEW p \in Positions
      PROVE  /\ Left(SlotsCount, currentPos, p) \in 0 .. SlotsCount - 1
             /\ Left(SlotsCount, currentPos, p) = 0 <=> p = currentPos
             /\ PosAfter(Left(SlotsCount, currentPos, p)) = p
  <2>1. p \in 0 .. SlotsCount - 1
    BY DEF Positions
  <2>2. QED
    BY <1>1, <2>1, LeftRange DEF PosAfter
<1>4. QED
  BY <1>2, <1>3

\* The countdown that timer id of slot p stands for, in the slots s of a
\* wheel at position pos.
CountdownAt(s, pos, id, p) ==
    [id |-> id, interval |-> s[p][id].interval, args |-> s[p][id].args,
     left |-> Left(SlotsCount, pos, p)]

\* A countdown of the abstract state is an entry of the wheel.
LEMMA CountdownsAre ==
    /\ \A c : c \in Countdowns
                 <=> \E p \in Positions : \E id \in DOMAIN slots[p] :
                        c = CountdownAt(slots, currentPos, id, p)
    /\ \A c : c \in Countdowns'
                 <=> \E p \in Positions : \E id \in DOMAIN slots'[p] :
                        c = CountdownAt(slots', currentPos', id, p)
BY DEF Countdowns, CountdownAt, TicksUntil, Left

\* AddTimer puts one fresh countdown into the abstract state.
LEMMA AddIsAdd ==
    ASSUME WheelTypeOK, ShortIntervals,
           NEW id \in Ids, NEW interval \in Intervals, NEW args \in Args,
           slots' = AddTo(slots, id, interval, args),
           UNCHANGED currentPos, Abstract!Quietly
    PROVE  Abstract!Add(id, interval, args)
<1>1. interval \in 0 .. SlotsCount - 1
  BY DEF ShortIntervals
<1> PICK q \in Positions : /\ q = PosAfter(interval)
                           /\ Left(SlotsCount, currentPos, q) = interval
  BY <1>1, LeftFacts
<1> PICK new : new = Abstract!Fresh(id, interval, args)
  OBVIOUS
<1>2. currentPos' = currentPos
  OBVIOUS
<1>3. slots' = [slots EXCEPT ![q] =
                   Override(@, [i \in {id} |-> NewTimer(interval, args)])]
  BY DEF AddTo
<1>4. \A p \in Positions \ {q} : slots'[p] = slots[p]
  BY <1>3 DEF WheelTypeOK
<1>5. /\ DOMAIN slots'[q] = DOMAIN slots[q] \cup {id}
      /\ slots'[q][id] = NewTimer(interval, args)
      /\ \A i \in DOMAIN slots[q] \ {id} : slots'[q][i] = slots[q][i]
  BY <1>3 DEF WheelTypeOK, Override
<1>6. CountdownAt(slots', currentPos', id, q) = new
  BY <1>2, <1>5 DEF CountdownAt, NewTimer, Abstract!Fresh
<1>7. new.id = id /\ new.left = interval
  BY DEF Abstract!Fresh
\* The countdowns of all timers but the new one are those there were.
<1>8. ASSUME NEW p \in Positions, NEW i, ~ (p = q /\ i = id)
      PROVE  /\ i \in DOMAIN slots'[p] <=> i \in DOMAIN slots[p]
             /\ i \in DOMAIN slots[p] =>
                   CountdownAt(slots', currentPos', i, p)
                     = CountdownAt(slots, currentPos, i, p)
  BY <1>2, <1>4, <1>5, <1>8 DEF CountdownAt
<1>9. ASSUME NEW p \in Positions, NEW i
      PROVE  Abstract!Same(CountdownAt(slots, currentPos, i, p), new)
               <=> p = q /\ i = id
  BY <1>7, LeftFacts DEF CountdownAt, Abstract!Same
<1>10. \A c : c \in Countdowns'
                <=> c = new \/ (c \in Countdowns /\ ~ Abstract!Same(c, new))
  <2>1. ASSUME NEW c \in Countdowns', c # new
        PROVE  c \in Countdowns /\ ~ Abstract!Same(c, new)
    <3>1. PICK p \in Positions : \E i \in DOMAIN slots'[p] :
                 c = CountdownAt(slots', currentPos', i, p)
      BY CountdownsAre
    <3>2. PICK i \in DOMAIN slots'[p] :
                 c = CountdownAt(slots', currentPos', i, p)
      BY <3>1
    <3>3. ~ (p = q /\ i = id)
      BY <2>1, <3>2, <1>6
    <3>4. QED
      BY <3>2, <3>3, <1>8, <1>9, CountdownsAre
  <2>2. new \in Countdowns'
    BY <1>5, <1>6, CountdownsAre
  <2>3. ASSUME NEW c \in Countdowns, ~ Abstract!Same(c, new)
        PROVE  c \in Countdowns'
    <3>1. PICK p \in Positions : \E i \in DOMAIN slots[p] :
                 c = CountdownAt(slots, currentPos, i, p)
      BY CountdownsAre
    <3>2. PICK i \in DOMAIN slots[p] :
                 c = CountdownAt(slots, currentPos, i, p)
      BY <3>1
    <3>3. ~ (p = q /\ i = id)
      BY <2>3, <3>2, <1>9
    <3>4. QED
      BY <3>2, <3>3, <1>8, CountdownsAre
  <2>4. QED
    BY <2>1, <2>2, <2>3
<1>11. Countdowns' = Abstract!Joined(Countdowns, {new})
  BY <1>10 DEF Abstract!Joined
<1>12. QED
  BY <1>11 DEF Abstract!Add

\* RemoveTimer removes the countdowns of the id, in whatever slots they are.
LEMMA RemoveIsRemove ==
    ASSUME WheelTypeOK, NEW id \in Ids, slots' = RemoveFrom(slots, id),
           UNCHANGED currentPos, Abstract!Quietly
    PROVE  Abstract!Remove(id)
<1>1. /\ currentPos' = currentPos
      /\ \A p \in Positions : /\ DOMAIN slots'[p] = DOMAIN slots[p] \ {id}
                              /\ \A i \in DOMAIN slots'[p] :
                                    slots'[p][i] = slots[p][i]
  BY DEF RemoveFrom, Without
<1>2. \A p \in Positions : \A i \in DOMAIN slots'[p] :
          CountdownAt(slots', currentPos', i, p)
            = CountdownAt(slots, currentPos, i, p)
  BY <1>1 DEF CountdownAt
<1>3. \A p, i : CountdownAt(slots, currentPos, i, p).id = i
  BY DEF CountdownAt
<1>4. \A c : c \in Countdowns' <=> c \in Countdowns /\ c.id # id
  BY <1>1, <1>2, <1>3, CountdownsAre
<1>5. QED
  BY <1>4 DEF Abstract!Remove

\* A tick fires the countdowns that are over, and the others come one tick nearer.
LEMMA TickIsTick ==
    ASSUME WheelTypeOK, PlacedInv, ShortIntervals, Tick
    PROVE  Abstract!Tick
<1> DEFINE at(i, p)  == CountdownAt(slots, currentPos, i, p)
           atN(i, p) == CountdownAt(slots', currentPos', i, p)
           again(c)  == [c EXCEPT !.left = c.interval - 1]
           nearer(c) == [c EXCEPT !.left = @ - 1]
           A == {again(c) : c \in Abstract!Over}
           G == {nearer(c) : c \in Countdowns \ Abstract!Over}
<1>1. /\ currentPos \in 0 .. SlotsCount - 1
      /\ SlotsCount \in Nat \ {0}
      /\ currentPos' = (currentPos + 1) % SlotsCount
      /\ slots' = [p \in Positions |-> AfterVisit(p)]
      /\ fired' = {<<i, slots[currentPos][i].args>> : i \in Due}
  BY WheelAssumption DEF WheelTypeOK, Positions, Tick
<1>2. Waiting = {} /\ Due = DOMAIN slots[currentPos]
  BY DEF Waiting, Due, PlacedInv, WellPlaced, WheelTypeOK
<1>3. ASSUME NEW p \in Positions, p # currentPos
      PROVE  Left(SlotsCount, currentPos', p) = Left(SlotsCount, currentPos, p) - 1
  BY <1>1, <1>3, LeftStep DEF Positions
\* Where the timers that are due go.
<1>4. ASSUME NEW i \in Due
      PROVE  LET k == slots[currentPos][i].interval
             IN  /\ PosAfter(k) \in Positions \ {currentPos}
                 /\ Left(SlotsCount, currentPos, PosAfter(k)) = k
  <2>1. slots[currentPos][i].interval \in 1 .. SlotsCount - 1
    BY DEF Due, WheelTypeOK, Timer, ShortIntervals
  <2>2. QED
    BY <2>1, <1>1, LeftFacts
<1>5. ASSUME NEW p \in Positions \ {currentPos}, NEW i
      PROVE  /\ i \in DOMAIN Rearmed(p)
                  <=> i \in Due /\ p = PosAfter(slots[currentPos][i].interval)
             /\ i \in DOMAIN slots'[p]
                  <=> i \in DOMAIN slots[p] \/ i \in DOMAIN Rearmed(p)
  BY <1>1 DEF Rearmed, AfterVisit, Override
<1>6. ASSUME NEW p \in Positions \ {currentPos}, NEW i \in DOMAIN Rearmed(p)
      PROVE  atN(i, p) = again(at(i, currentPos))
  <2>1. slots'[p][i] = [slots[currentPos][i] EXCEPT !.elapsed = 1]
    BY <1>1 DEF AfterVisit, Override, Rearmed
  <2>2. i \in Due /\ p = PosAfter(slots[currentPos][i].interval)
    BY <1>5
  <2>3. slots[currentPos][i] \in Timer
    BY <2>2 DEF Due, WheelTypeOK
  <2>4. Left(SlotsCount, currentPos', p) = slots[currentPos][i].interval - 1
    BY <2>2, <1>3, <1>4
  <2>5. QED
    BY <2>1, <2>3, <2>4 DEF CountdownAt, Timer
<1>7. ASSUME NEW p \in Positions \ {currentPos},
             NEW i \in DOMAIN slots[p], i \notin DOMAIN Rearmed(p)
      PROVE  atN(i, p) = nearer(at(i, p))
  <2>1. slots'[p][i] = OneMore(slots[p][i])
    BY <1>1, <1>5, <1>7 DEF AfterVisit, Override
  <2>2. slots[p][i] \in Timer
    BY DEF WheelTypeOK
  <2>3. QED
    BY <2>1, <2>2, <1>3 DEF CountdownAt, Timer, OneMore
<1>8. \A c : c \in Abstract!Over <=> \E i \in Due : c = at(i, currentPos)
  BY <1>2, LeftFacts, CountdownsAre DEF Abstract!Over, CountdownAt, WheelTypeOK
<1>9. \A i \in Due : again(at(i, currentPos)) \in A
  BY <1>8
\* What is re-armed into a slot is Same as what it takes the place of.
<1>10. ASSUME NEW p \in Positions \ {currentPos}, NEW i \in DOMAIN slots[p]
       PROVE  i \in DOMAIN Rearmed(p)
                <=> \E n \in A : Abstract!Same(nearer(at(i, p)), n)
  <2>1. /\ nearer(at(i, p)).id = i
        /\ nearer(at(i, p)).left = Left(SlotsCount, currentPos, p) - 1
    BY DEF CountdownAt
  <2>2. ASSUME NEW j
        PROVE  /\ again(at(j, currentPos)).id = j
               /\ again(at(j, currentPos)).left
                    = slots[currentPos][j].interval - 1
    BY DEF CountdownAt
  <2>3. ASSUME i \in DOMAIN Rearmed(p)
        PROVE  Abstract!Same(nearer(at(i, p)), again(at(i, currentPos)))
    BY <2>1, <2>2, <2>3, <1>4, <1>5 DEF Abstract!Same
  <2>4. ASSUME NEW n \in A, Abstract!Same(nearer(at(i, p)), n)
        PROVE  i \in DOMAIN Rearmed(p)
    <3>1. PICK j \in Due : n = again(at(j, currentPos))
      BY <1>8
    <3>2. /\ i = j
          /\ Left(SlotsCount, currentPos, p) - 1
                = slots[currentPos][j].interval - 1
      BY <2>1, <2>2, <2>4, <3>1 DEF Abstract!Same
    <3>3. /\ Left(SlotsCount, currentPos, p) \in Nat
          /\ slots[currentPos][j].interval \in Nat
          /\ PosAfter(Left(SlotsCount, currentPos, p)) = p
      BY LeftFacts, TimerFields DEF Due, WheelTypeOK
    <3>4. p = PosAfter(slots[currentPos][j].interval)
      BY <3>2, <3>3
    <3>5. QED
      BY <3>2, <3>4, <1>5
  <2>5. QED
    BY <2>3, <2>4, <1>5, <1>9
<1>11. ASSUME NEW p \in Positions \ {currentPos}, NEW i \in DOMAIN slots[p]
       PROVE  nearer(at(i, p)) \in G
  <2>1. at(i, p) \in Countdowns
    BY CountdownsAre
  <2>2. at(i, p).left # 0
    BY LeftFacts DEF CountdownAt
  <2>3. QED
    BY <2>1, <2>2 DEF Abstract!Over
<1> HIDE DEF at, atN, again, nearer, A, G
<1>12. \A x : x \in Countdowns'
         => x \in A \/ (x \in G /\ \A n \in A : ~ Abstract!Same(x, n))
  <2> SUFFICES ASSUME NEW x \in Countdowns'
               PROVE  x \in A \/ (x \in G /\ \A n \in A : ~ Abstract!Same(x, n))
    OBVIOUS
  <2>1. PICK p \in Positions : \E i \in DOMAIN slots'[p] : x = atN(i, p)
    BY CountdownsAre DEF atN
  <2>2. PICK i \in DOMAIN slots'[p] : x = atN(i, p)
    BY <2>1
  <2>3. p # currentPos
    BY <1>1, <1>2 DEF AfterVisit
  <2>4. CASE i \in DOMAIN Rearmed(p)
    BY <2>2, <2>3, <2>4, <1>5, <1>6, <1>9
  <2>5. CASE i \notin DOMAIN Rearmed(p)
    BY <2>2, <2>3, <2>5, <1>5, <1>7, <1>10, <1>11
  <2>6. QED
    BY <2>4, <2>5
<1>13. ASSUME NEW x \in A
       PROVE  x \in Countdowns'
  <2>1. PICK i \in Due : x = again(at(i, currentPos))
    BY <1>8 DEF A
  <2> PICK p \in Positions \ {currentPos} :
         p = PosAfter(slots[currentPos][i].interval)
    BY <1>4
  <2>2. i \in DOMAIN Rearmed(p) /\ i \in DOMAIN slots'[p]
    BY <1>5
  <2>3. QED
    BY <2>1, <2>2, <1>6, CountdownsAre DEF atN
<1>14. ASSUME NEW x \in G, \A n \in A : ~ Abstract!Same(x, n)
       PROVE  x \in Countdowns'
  <2>1. PICK c \in Countdowns : c.left # 0 /\ x = nearer(c)
    BY DEF G, Abstract!Over
  <2>2. PICK p \in Positions : \E i \in DOMAIN slots[p] : c = at(i, p)
    BY CountdownsAre DEF at
  <2>3. PICK i \in DOMAIN slots[p] : c = at(i, p)
    BY <2>2
  <2>4. p # currentPos
    BY <2>1, <2>3, LeftFacts DEF at, CountdownAt
  <2>5. i \notin DOMAIN Rearmed(p)
    BY <2>1, <2>3, <2>4, <1>10, <1>14
  <2>6. QED
    BY <2>1, <2>3, <2>4, <2>5, <1>5, <1>7, CountdownsAre DEF atN
<1>15. Countdowns' = Abstract!Joined(G, A)
  BY <1>12, <1>13, <1>14 DEF Abstract!Joined
<1>16. fired' = {<<c.id, c.args>> : c \in Abstract!Over}
  <2>1. \A i : <<at(i, currentPos).id, at(i, currentPos).args>>
                 = <<i, slots[currentPos][i].args>>
    BY DEF at, CountdownAt
  <2>2. \A f : f \in fired' <=> \E c \in Abstract!Over : f = <<c.id, c.args>>
    <3>1. \A f : f \in fired'
                   <=> \E i \in Due : f = <<i, slots[currentPos][i].args>>
      BY <1>1
    <3>2. QED
      BY <3>1, <2>1, <1>8
  <2>3. QED
    BY <2>2, <1>1
<1>17. QED
  BY <1>15, <1>16 DEF Abstract!Tick, A, G, again, nearer

\* For intervals shorter than a turn the wheel implements the countdowns of
\* module Countdown, whatever its size and whoever adds and removes timers.
THEOREM WheelImplementsCountdown ==
    ASSUME ShortIntervals
    PROVE  WheelSpec => ImplementsCountdown
<1>1. WheelInit => Abstract!Init
  BY CountdownsAre DEF WheelInit, Abstract!Init
<1>2. WheelTypeOK /\ PlacedInv /\ [WheelNext]_wheelVars
        => [Abstract!Next]_<<Countdowns, fired>>
  <2> SUFFICES ASSUME WheelTypeOK, PlacedInv, [WheelNext]_wheelVars
               PROVE  [Abstract!Next]_<<Countdowns, fired>>
    OBVIOUS
  <2>1. ASSUME NEW id \in Ids, NEW interval \in Intervals, NEW args \in Args,
               AddTimer(id, interval, args)
        PROVE  Abstract!Next
    <3>1. Abstract!Quietly /\ UNCHANGED currentPos
          /\ slots' = AddTo(slots, id, interval, args)
      BY <2>1 DEF AddTimer, Abstract!Quietly
    <3>2. Abstract!Add(id, interval, args)
      BY <3>1, ShortIntervals, AddIsAdd
    <3>3. QED
      BY <3>2 DEF Abstract!Next
  <2>2. ASSUME NEW id \in Ids, RemoveTimer(id)
        PROVE  Abstract!Next
    <3>1. Abstract!Quietly /\ UNCHANGED currentPos
          /\ slots' = RemoveFrom(slots, id)
      BY <2>2 DEF RemoveTimer, Abstract!Quietly
    <3>2. Abstract!Remove(id)
      BY <3>1, RemoveIsRemove
    <3>3. QED
      BY <3>2 DEF Abstract!Next
  <2>3. CASE Tick
    BY <2>3, ShortIntervals, TickIsTick DEF Abstract!Next
  <2>4. CASE UNCHANGED wheelVars
    BY <2>4 DEF wheelVars, Countdowns, TicksUntil
  <2>5. QED
    BY <2>1, <2>2, <2>3, <2>4 DEF WheelNext
<1>3. QED
  BY <1>1, <1>2, ShortIntervals, AlwaysPlaced, WheelTypeCorrect, PTL
     DEF WheelSpec, ImplementsCountdown, Abstract!Spec
(***************************************************************************)
(* No timer is late, whatever its interval.  What is left until a timer    *)
(* fires, its full turns and the ticks until its slot is visited, is no    *)
(* more than what is left of its interval.  Re-armed without its turns, a  *)
(* long timer has less left than that.                                     *)
(***************************************************************************)

InTime(t, left) == t.elapsed + left + t.rounds * SlotsCount <= t.interval

EarlyInv ==
    \A p \in Positions : \A id \in DOMAIN slots[p] :
        InTime(slots[p][id], Left(SlotsCount, currentPos, p))

\* An interval is its full turns and what exceeds them.
LEMMA TurnsAndRest ==
    ASSUME NEW n \in Nat \ {0}, NEW x \in Nat
    PROVE  x = (x \div n) * n + (x % n)
OBVIOUS

\* A multiple of n within n of 0 is 0.
LEMMA SmallMultiple ==
    ASSUME NEW n \in Nat \ {0}, NEW k \in Int, k * n < n, - n < k * n
    PROVE  k = 0
<1>1. CASE k >= 1
  <2>1. k * n >= n
    BY <1>1
  <2>2. QED
    BY <2>1
<1>2. CASE k <= -1
  <2>1. k * n <= - n
    BY <1>2
  <2>2. QED
    BY <2>1
<1>3. QED
  BY <1>1, <1>2

\* There is one way to write a number as full turns and a rest.
LEMMA OneWay ==
    ASSUME NEW n \in Nat \ {0}, NEW q \in Nat, NEW m \in 0 .. n - 1,
           NEW k \in Nat, NEW r \in 0 .. n - 1, q * n + m = k * n + r
    PROVE  r = m
<1>1. q * n \in Nat /\ k * n \in Nat /\ (q - k) * n = q * n - k * n
  OBVIOUS
<1>2. (q - k) * n = r - m
  BY <1>1
<1>3. q - k \in Int /\ (q - k) * n < n /\ - n < (q - k) * n
  BY <1>2
<1>4. q - k = 0
  BY <1>3, SmallMultiple
<1>5. q = k
  BY <1>4
<1>6. QED
  BY <1>1, <1>5

\* The remainder is what exceeds the full turns.
LEMMA ModUnique ==
    ASSUME NEW n \in Nat \ {0}, NEW q \in Nat, NEW m \in 0 .. n - 1
    PROVE  (q * n + m) % n = m
<1>1. q * n + m \in Nat
  OBVIOUS
<1>2. PICK y \in Nat : y = q * n + m
  BY <1>1
<1>3. PICK k \in Nat, r \in 0 .. n - 1 : k = y \div n /\ r = y % n
  BY ModRange, DivRange
<1>4. y = k * n + r
  BY <1>3, TurnsAndRest
<1>5. r = m
  BY <1>2, <1>4, OneWay
<1>6. QED
  BY <1>2, <1>3, <1>5

\* Full turns add nothing to where a timer lands.
LEMMA ModTurns ==
    ASSUME NEW n \in Nat \ {0}, NEW c \in 0 .. n - 1, NEW x \in Nat
    PROVE  (c + x) % n = (c + (x % n)) % n
<1> DEFINE q == x \div n
           r == x % n
<1>1. x = q * n + r /\ r \in 0 .. n - 1 /\ q \in Nat
  BY TurnsAndRest, ModRange, DivRange
<1> HIDE DEF q, r
<1>2. q * n \in Nat /\ (q + 1) * n = q * n + n
  BY <1>1
<1>3. CASE c + r < n
  <2>1. PICK m \in 0 .. n - 1 : m = c + r
    BY <1>1, <1>3
  <2>2. (q * n + m) % n = m /\ m % n = m
    BY <1>1, ModUnique, ModSmall
  <2>3. c + x = q * n + m
    BY <1>1, <1>2, <2>1
  <2>4. (c + x) % n = (c + r) % n
    BY <2>1, <2>2, <2>3
  <2>5. QED
    BY <2>4 DEF r
<1>4. CASE c + r >= n
  <2>1. PICK m \in 0 .. n - 1, s \in n .. 2 * n - 1 : m = s - n /\ s = c + r
    BY <1>1, <1>4
  <2>2. ((q + 1) * n + m) % n = m /\ s % n = m
    <3>1. PICK k \in Nat : k = q + 1
      BY <1>1
    <3>2. (k * n + m) % n = m
      BY ModUnique
    <3>3. QED
      BY <2>1, <3>1, <3>2, ModSub
  <2>3. c + x = (q + 1) * n + m
    BY <1>1, <1>2, <2>1
  <2>4. (c + x) % n = (c + r) % n
    BY <2>1, <2>2, <2>3
  <2>5. QED
    BY <2>4 DEF r
<1>5. QED
  BY <1>1, <1>3, <1>4

\* From any position, a timer lands as many ticks ahead as its interval
\* exceeds its turns.
LEMMA Landing ==
    ASSUME NEW c \in Positions, NEW i \in Intervals
    PROVE  /\ (c + i) % SlotsCount \in Positions
           /\ Left(SlotsCount, c, (c + i) % SlotsCount) = i % SlotsCount
           /\ i % SlotsCount \in Nat /\ RoundsOf(i) \in Nat
           /\ i = RoundsOf(i) * SlotsCount + (i % SlotsCount)
           /\ i % SlotsCount <= i
<1>1. /\ i \in Nat /\ SlotsCount \in Nat \ {0}
      /\ c \in 0 .. SlotsCount - 1
  BY WheelAssumption DEF Positions
<1>2. i % SlotsCount \in 0 .. SlotsCount - 1 /\ i \div SlotsCount \in Nat
  BY <1>1, ModRange, DivRange
<1>3. (c + i) % SlotsCount = (c + (i % SlotsCount)) % SlotsCount
  BY <1>1, ModTurns
<1>4. Left(SlotsCount, c, (c + i) % SlotsCount) = i % SlotsCount
  BY <1>1, <1>2, <1>3, LeftAfter
<1>5. (c + i) % SlotsCount \in Positions
  <2>1. c + i \in Nat
    BY <1>1
  <2>2. QED
    BY <1>1, <2>1, ModRange DEF Positions
<1>6. i = (i \div SlotsCount) * SlotsCount + (i % SlotsCount)
  BY <1>1, TurnsAndRest
<1>7. (i \div SlotsCount) * SlotsCount \in Nat
  BY <1>1, <1>2
<1>8. i % SlotsCount <= i
  BY <1>1, <1>2, <1>6, <1>7
<1>9. QED
  BY <1>2, <1>4, <1>5, <1>6, <1>8 DEF RoundsOf

\* The slot just visited is all but one of the slots away.
LEMMA LeftBehind ==
    ASSUME NEW n \in Nat \ {0}, NEW c \in 0 .. n - 1
    PROVE  Left(n, (c + 1) % n, c) = n - 1
<1>1. CASE c + 1 < n
  <2>1. (c + 1) % n = c + 1
    BY <1>1, ModSmall
  <2>2. QED
    BY <1>1, <2>1, ModSmall DEF Left
<1>2. CASE c + 1 = n
  <2>1. (c + 1) % n = 0
    BY <1>2, ModSub
  <2>2. (c + n) % n = c
    BY ModSub
  <2>3. QED
    BY <1>2, <2>1, <2>2 DEF Left
<1>3. QED
  BY <1>1, <1>2

\* A tick takes one from what is left of each timer it lets wait.
LEMMA TickKeepsEarly ==
    ASSUME WheelTypeOK, EarlyInv, Tick
    PROVE  EarlyInv'
<1>1. /\ currentPos \in 0 .. SlotsCount - 1
      /\ SlotsCount \in Nat \ {0}
      /\ currentPos' = (currentPos + 1) % SlotsCount
      /\ slots' = [p \in Positions |-> AfterVisit(p)]
  BY WheelAssumption DEF WheelTypeOK, Positions, Tick
<1> SUFFICES ASSUME NEW p \in Positions, NEW id \in DOMAIN AfterVisit(p)
             PROVE  InTime(AfterVisit(p)[id], Left(SlotsCount, currentPos', p))
  BY <1>1 DEF EarlyInv, InTime
<1> DEFINE t == slots[p][id]
           left == Left(SlotsCount, currentPos, p)
<1>2. left \in Nat
  BY LeftFacts DEF Positions
<1>3. CASE p = currentPos
  <2>1. id \in Waiting
    BY <1>3 DEF AfterVisit
  <2>2. /\ t \in Timer /\ t.rounds \in Nat \ {0} /\ t.elapsed \in Nat
        /\ InTime(t, left)
    BY <1>3, <2>1 DEF Waiting, Due, WheelTypeOK, Timer, EarlyInv
  <2>3. /\ AfterVisit(p)[id].elapsed = t.elapsed + 1
        /\ AfterVisit(p)[id].rounds = t.rounds - 1
        /\ AfterVisit(p)[id].interval = t.interval
    BY <1>3, <2>1, <2>2 DEF AfterVisit, OneMore, Timer
  <2>4. left = 0 /\ Left(SlotsCount, currentPos', p) = SlotsCount - 1
    BY <1>1, <1>3, LeftBehind, LeftFacts
  <2>5. (t.rounds - 1) * SlotsCount = t.rounds * SlotsCount - SlotsCount
    BY <1>1, <2>2
  <2>6. t.rounds * SlotsCount \in Nat /\ t.interval \in Nat
    BY <1>1, <2>2, TimerFields
  <2> HIDE DEF t, left
  <2>7. QED
    BY <1>1, <2>2, <2>3, <2>4, <2>5, <2>6 DEF InTime
<1>4. CASE p # currentPos /\ id \in DOMAIN Rearmed(p)
  <2> DEFINE d == slots[currentPos][id]
  <2>1. /\ id \in Due /\ p = PosAfter(d.interval)
        /\ AfterVisit(p)[id] = [d EXCEPT !.elapsed = 1]
    BY <1>4 DEF AfterVisit, Override, Rearmed
  <2>2. d \in Timer /\ d.rounds = 0 /\ d.interval \in Intervals
    BY <2>1 DEF Due, WheelTypeOK, Timer
  <2>3. left = d.interval % SlotsCount /\ left <= d.interval
    BY <1>1, <2>1, <2>2, Landing DEF PosAfter, Positions
  <2>4. Left(SlotsCount, currentPos', p) = left - 1
    BY <1>1, <1>4, LeftStep DEF Positions
  <2>5. /\ AfterVisit(p)[id].elapsed = 1
        /\ AfterVisit(p)[id].rounds = 0
        /\ AfterVisit(p)[id].interval = d.interval
    BY <2>1, <2>2 DEF Timer
  <2>6. d.interval \in Nat
    BY <2>2, TimerFields
  <2> HIDE DEF d, left
  <2>7. QED
    BY <1>1, <1>2, <2>3, <2>4, <2>5, <2>6 DEF InTime
<1>5. CASE p # currentPos /\ id \notin DOMAIN Rearmed(p)
  <2>1. id \in DOMAIN slots[p] /\ AfterVisit(p)[id] = OneMore(t)
    BY <1>5 DEF AfterVisit, Override
  <2>2. t \in Timer /\ InTime(t, left)
    BY <2>1 DEF WheelTypeOK, EarlyInv
  <2>3. /\ OneMore(t).elapsed = t.elapsed + 1
        /\ OneMore(t).rounds = t.rounds
        /\ OneMore(t).interval = t.interval
    BY <2>2 DEF OneMore, Timer
  <2>4. Left(SlotsCount, currentPos', p) = left - 1
    BY <1>1, <1>5, LeftStep DEF Positions
  <2>5. /\ t.elapsed \in Nat /\ t.interval \in Nat
        /\ t.rounds * SlotsCount \in Nat
    BY <1>1, <2>2, TimerFields
  <2> HIDE DEF t, left
  <2>6. QED
    BY <1>2, <2>1, <2>2, <2>3, <2>4, <2>5 DEF InTime
<1>6. QED
  BY <1>3, <1>4, <1>5

\* What AddTimer makes has its interval, in turns and ticks, ahead of it.
LEMMA OldOrNewEarly ==
    ASSUME WheelTypeOK, EarlyInv, OldOrNew
    PROVE  EarlyInv'
<1> SUFFICES ASSUME NEW p \in Positions, NEW id \in DOMAIN slots'[p]
             PROVE  InTime(slots'[p][id], Left(SlotsCount, currentPos', p))
  BY DEF EarlyInv, InTime
<1>1. CASE /\ currentPos' = currentPos
           /\ id \in DOMAIN slots[p] /\ slots'[p][id] = slots[p][id]
  BY <1>1 DEF EarlyInv
<1>2. ASSUME NEW interval \in Intervals, NEW args \in Args,
             slots'[p][id] = NewTimer(interval, args),
             p = (currentPos' + interval) % SlotsCount
      PROVE  InTime(slots'[p][id], Left(SlotsCount, currentPos', p))
  <2>1. /\ slots'[p][id].rounds = RoundsOf(interval)
        /\ slots'[p][id].elapsed = 0
        /\ slots'[p][id].interval = interval
    BY <1>2 DEF NewTimer
  <2>2. /\ Left(SlotsCount, currentPos', p) = interval % SlotsCount
        /\ interval % SlotsCount \in Nat /\ RoundsOf(interval) \in Nat
        /\ interval = RoundsOf(interval) * SlotsCount + (interval % SlotsCount)
    BY <1>2, Landing DEF OldOrNew
  <2>3. RoundsOf(interval) * SlotsCount \in Nat
    BY <2>2, WheelAssumption
  <2>4. QED
    BY <2>1, <2>2, <2>3 DEF InTime
<1>3. QED
  BY <1>1, <1>2 DEF OldOrNew

\* Neither the wheel's turns nor its remainder add up to more than is left.
LEMMA EarlyIsInTime == ASSUME WheelTypeOK, EarlyInv PROVE NeverOverdue
<1> SUFFICES ASSUME NEW p \in Positions, NEW id \in DOMAIN slots[p]
             PROVE  slots[p][id].elapsed <= slots[p][id].interval
  BY DEF NeverOverdue
<1> DEFINE t == slots[p][id]
<1>1. t \in Timer /\ InTime(t, Left(SlotsCount, currentPos, p))
  BY DEF WheelTypeOK, EarlyInv
<1>2. /\ t.rounds * SlotsCount \in Nat
      /\ Left(SlotsCount, currentPos, p) \in Nat
      /\ t.elapsed \in Nat /\ t.interval \in Nat
  BY <1>1, TimerFields, LeftFacts, WheelAssumption
<1> HIDE DEF t
<1>3. t.elapsed <= t.interval
  BY <1>1, <1>2 DEF InTime
<1>4. QED
  BY <1>3 DEF t

\* No timer is ever overdue: not for any interval, whole turns and intervals
\* beyond a turn included.
THEOREM NeverLate == WheelSpec => []NeverOverdue
<1>1. WheelInit => EarlyInv
  BY DEF WheelInit, EarlyInv
<1>2. WheelTypeOK /\ EarlyInv /\ [WheelNext]_wheelVars => EarlyInv'
  <2> SUFFICES ASSUME WheelTypeOK, EarlyInv, [WheelNext]_wheelVars
               PROVE  EarlyInv'
    OBVIOUS
  <2>1. ASSUME NEW id \in Ids, NEW interval \in Intervals, NEW args \in Args,
               AddTimer(id, interval, args)
        PROVE  EarlyInv'
    BY <2>1, AddIsOldOrNew, OldOrNewEarly DEF AddTimer
  <2>2. ASSUME NEW id \in Ids, RemoveTimer(id)
        PROVE  EarlyInv'
    BY <2>2, RemoveIsOldOrNew, OldOrNewEarly DEF RemoveTimer
  <2>3. CASE Tick
    BY <2>3, TickKeepsEarly
  <2>4. CASE UNCHANGED wheelVars
    BY <2>4 DEF wheelVars, EarlyInv
  <2>5. QED
    BY <2>1, <2>2, <2>3, <2>4 DEF WheelNext
<1>3. QED
  BY <1>1, <1>2, EarlyIsInTime, WheelTypeCorrect, PTL DEF WheelSpec

(***************************************************************************)
(* The commands over the wheel.                                            *)
(***************************************************************************)

\* What the commands hand to the wheel.
LEMMA ArgsType ==
    ASSUME NEW text \in Texts, NEW o \in Objs
    PROVE  [text |-> text, timer |-> o] \in Args
BY CommandTimersAssumption

\* The timer of a command that has one.
LEMMA TimerTypes ==
    ASSUME TypeOK, NEW c \in Ids, HasTimer(c)
    PROVE  /\ c \in DOMAIN commands /\ commands[c].text \in Texts
           /\ commands[c].timer \in Objs
           /\ objs[commands[c].timer] \in Timers
           /\ objs[commands[c].timer].interval \in Intervals
           /\ [text |-> commands[c].text, timer |-> commands[c].timer] \in Args
<1>1. /\ c \in DOMAIN commands /\ commands[c].text \in Texts
      /\ commands[c].timer \in Objs
  BY DEF TypeOK, HasTimer, Command
<1>2. objs[commands[c].timer] \in Timers
  BY <1>1 DEF TypeOK
<1>3. QED
  BY <1>1, <1>2, ArgsType DEF Timers

\* A new process has a wheel of new timers only.
LEMMA StartUpIsOldOrNew == ASSUME TypeOK, StartUp PROVE OldOrNew
<1>1. 0 \in Positions
  BY WheelAssumption DEF Positions
<1>2. currentPos' = 0 /\ DOMAIN slots' = Positions
  BY DEF StartUp
<1>3. ASSUME NEW p \in Positions, NEW c \in DOMAIN slots'[p]
      PROVE  /\ c \in Ids
             /\ \E interval \in Intervals, args \in Args :
                   /\ slots'[p][c] = NewTimer(interval, args)
                   /\ p = (currentPos' + interval) % SlotsCount
  <2>1. /\ c \in DOMAIN commands /\ HasTimer(c)
        /\ objs[commands[c].timer].interval % SlotsCount = p
        /\ slots'[p][c] = NewTimer(objs[commands[c].timer].interval,
                                   [text |-> commands[c].text,
                                    timer |-> commands[c].timer])
    BY <1>3 DEF StartUp
  <2>2. c \in Ids
    BY <2>1 DEF TypeOK
  <2>3. objs[commands[c].timer].interval \in Intervals
    BY <2>1, <2>2, TimerTypes
  <2>4. \A i \in Intervals : 0 + i = i
    BY WheelAssumption
  <2>5. QED
    BY <1>2, <2>1, <2>2, <2>3, <2>4, TimerTypes
<1>4. QED
  BY <1>1, <1>2, <1>3 DEF OldOrNew

\* To the wheel a step of the system is a tick, or leaves old timers and new.
LEMMA StepsOfTheWheel ==
    ASSUME TypeOK, [Next]_vars
    PROVE  \/ OldOrNew /\ fired' \subseteq fired
           \/ Tick
<1>0. WheelTypeOK
  BY DEF TypeOK
<1>1. CASE UNCHANGED <<slots, currentPos>> /\ fired' \subseteq fired
  BY <1>0, <1>1 DEF OldOrNew, WheelTypeOK
<1>2. ASSUME NEW c \in Ids, NEW interval \in Intervals, NEW o \in Objs,
             AddCommandTimer(c, interval, o)
      PROVE  OldOrNew /\ fired' \subseteq fired
  <2>1. commands[c].text \in Texts
    BY <1>2 DEF AddCommandTimer, TypeOK, Command
  <2>2. QED
    BY <1>0, <1>2, <2>1, ArgsType, AddIsOldOrNew DEF AddCommandTimer, Register, AdminOnly
<1>3. ASSUME NEW c \in Ids, DelCommandTimer(c) \/ TimerOff(c)
      PROVE  OldOrNew /\ fired' \subseteq fired
  BY <1>0, <1>3, RemoveIsOldOrNew DEF DelCommandTimer, TimerOff, AdminOnly
<1>4. ASSUME NEW c \in Ids, TimerOn(c)
      PROVE  OldOrNew /\ fired' \subseteq fired
  BY <1>0, <1>4, TimerTypes, AddIsOldOrNew DEF TimerOn, Register, AdminOnly
<1>5. ASSUME NEW c \in Ids, NEW interval \in Intervals, SetCommandTimer(c, interval)
      PROVE  OldOrNew /\ fired' \subseteq fired
  BY <1>0, <1>5, TimerTypes, AddIsOldOrNew DEF SetCommandTimer, Register, AdminOnly
<1>6. CASE StartUp
  BY <1>6, StartUpIsOldOrNew DEF StartUp
<1>7. ASSUME NEW c \in Ids, NEW text \in Texts, AddCommand(c, text) \/ SetCommand(c, text)
      PROVE  UNCHANGED <<slots, currentPos>> /\ fired' \subseteq fired
  BY <1>7 DEF AddCommand, SetCommand, AdminOnly
<1>8. ASSUME NEW c \in Ids, DelCommand(c)
      PROVE  UNCHANGED <<slots, currentPos>> /\ fired' \subseteq fired
  BY <1>8 DEF DelCommand, AdminOnly
<1>9. ASSUME NEW task \in pending, RunTask(task)
      PROVE  UNCHANGED <<slots, currentPos>> /\ fired' \subseteq fired
  BY <1>9 DEF RunTask
<1>10. CASE UNCHANGED vars
  BY <1>1, <1>10 DEF vars
<1>11. QED
  BY <1>1, <1>2, <1>3, <1>4, <1>5, <1>6, <1>7, <1>8, <1>9, <1>10
     DEF Next, Panic, Restart, WheelTick

\* An object that is changed stays an object.
LEMMA ObjsKept ==
    ASSUME objs \in [Objs -> Timers], NEW o \in Objs, NEW e \in BOOLEAN,
           NEW interval \in Intervals,
           \/ objs' = objs
           \/ objs' = [objs EXCEPT ![o] = [enabled |-> e, interval |-> interval]]
           \/ objs' = [objs EXCEPT ![o].enabled = e]
           \/ objs' = [objs EXCEPT ![o].interval = interval]
    PROVE  /\ objs' \in [Objs -> Timers]
           /\ \A q \in Objs \ {o} : objs'[q] = objs[q]
<1>1. /\ [enabled |-> e, interval |-> interval] \in Timers
      /\ [objs[o] EXCEPT !.enabled = e] \in Timers
      /\ [objs[o] EXCEPT !.interval = interval] \in Timers
  BY DEF Timers
<1>2. QED
  BY <1>1

\* The wheel and the commands each have their types, whatever is asked for,
\* started anew and lost.
LEMMA CommandTypes == TypeOK /\ [Next]_vars => TypeOK'
<1> SUFFICES ASSUME TypeOK, [Next]_vars PROVE TypeOK'
  OBVIOUS
<1>1. WheelTypeOK'
  <2>1. CASE OldOrNew /\ fired' \subseteq fired
    BY <2>1, OldOrNewTypes DEF SlotTypes, WheelTypeOK, TypeOK
  <2>2. CASE Tick
    BY <2>2, TickTypes DEF SlotTypes, WheelTypeOK, TypeOK
  <2>3. QED
    BY <2>1, <2>2, StepsOfTheWheel
<1>2. /\ DOMAIN commands' \subseteq Ids
      /\ \A c \in DOMAIN commands' : commands'[c] \in Command
  <2>1. ASSUME NEW c \in Ids, NEW text \in Texts, AddCommand(c, text)
        PROVE  /\ DOMAIN commands' \subseteq Ids
               /\ \A d \in DOMAIN commands' : commands'[d] \in Command
    BY <2>1 DEF AddCommand, Override, Command, TypeOK
  <2>2. ASSUME NEW c \in Ids, NEW text \in Texts, SetCommand(c, text)
        PROVE  /\ DOMAIN commands' \subseteq Ids
               /\ \A d \in DOMAIN commands' : commands'[d] \in Command
    BY <2>2 DEF SetCommand, Command, TypeOK
  <2>3. ASSUME NEW c \in Ids, DelCommand(c)
        PROVE  /\ DOMAIN commands' \subseteq Ids
               /\ \A d \in DOMAIN commands' : commands'[d] \in Command
    BY <2>3 DEF DelCommand, Without, TypeOK
  <2>4. ASSUME NEW c \in Ids, NEW o \in Objs \cup {None},
               c \in DOMAIN commands, commands' = [commands EXCEPT ![c].timer = o]
        PROVE  /\ DOMAIN commands' \subseteq Ids
               /\ \A d \in DOMAIN commands' : commands'[d] \in Command
    BY <2>4 DEF Command, TypeOK
  <2>5. CASE UNCHANGED commands
    BY <2>5 DEF TypeOK
  <2>6. QED
    BY <2>1, <2>2, <2>3, <2>4, <2>5
       DEF Next, AddCommandTimer, SetCommandTimer, DelCommandTimer, TimerOn, TimerOff,
           Panic, Restart, StartUp, WheelTick, RunTask, vars
<1>3. objs' \in [Objs -> Timers]
  <2>1. objs \in [Objs -> Timers] /\ TRUE \in BOOLEAN /\ FALSE \in BOOLEAN
    BY DEF TypeOK
  <2>2. ASSUME NEW c \in Ids, NEW interval \in Intervals, NEW o \in Objs,
               AddCommandTimer(c, interval, o)
        PROVE  objs' \in [Objs -> Timers]
    BY <2>1, <2>2, ObjsKept DEF AddCommandTimer
  <2>3. ASSUME NEW c \in Ids, TimerOn(c) \/ TimerOff(c)
        PROVE  objs' \in [Objs -> Timers]
    <3>1. commands[c].timer \in Objs /\ objs[commands[c].timer].interval \in Intervals
      BY <2>3, TimerTypes DEF TimerOn, TimerOff
    <3>2. \E e \in BOOLEAN : objs' = [objs EXCEPT ![commands[c].timer].enabled = e]
      BY <2>3 DEF TimerOn, TimerOff
    <3>3. QED
      BY <2>1, <3>1, <3>2, ObjsKept
  <2>4. ASSUME NEW c \in Ids, NEW interval \in Intervals, SetCommandTimer(c, interval)
        PROVE  objs' \in [Objs -> Timers]
    <3>1. commands[c].timer \in Objs
      BY <2>4, TimerTypes DEF SetCommandTimer
    <3>2. objs' = [objs EXCEPT ![commands[c].timer].interval = interval]
      BY <2>4 DEF SetCommandTimer
    <3>3. QED
      BY <2>1, <3>1, <3>2, ObjsKept
  <2>5. CASE UNCHANGED objs
    BY <2>1, <2>5
  <2>6. QED
    BY <2>2, <2>3, <2>4, <2>5
       DEF Next, AddCommand, SetCommand, DelCommand, DelCommandTimer,
           Panic, Restart, StartUp, WheelTick, RunTask, vars
<1>4. pending' \subseteq Ids \X Args /\ posted' \subseteq Ids \X Args
  <2>1. CASE WheelTick
    <3>1. fired' \subseteq Ids \X Args
      BY <1>1 DEF WheelTypeOK
    <3>2. QED
      BY <2>1, <3>1 DEF WheelTick, TypeOK
  <2>2. ASSUME NEW task \in pending, RunTask(task)
        PROVE  pending' \subseteq Ids \X Args /\ posted' \subseteq Ids \X Args
    BY <2>2 DEF RunTask, TypeOK
  <2>3. CASE pending' \in {pending, {}} /\ posted' \in {posted, {}}
    BY <2>3 DEF TypeOK
  <2>4. QED
    BY <2>1, <2>2, <2>3
       DEF Next, AddCommand, SetCommand, DelCommand, DelCommandTimer, AddCommandTimer,
           TimerOn, TimerOff, SetCommandTimer, AdminOnly, Panic, Restart, StartUp, vars
<1>5. QED
  BY <1>1, <1>2, <1>3, <1>4 DEF TypeOK

\* The start builds a wheel from the commands configured.
LEMMA InitTypes == Init => TypeOK
<1> SUFFICES ASSUME Init PROVE TypeOK
  OBVIOUS
<1>1. WheelTypeOK
  BY WheelAssumption DEF Init, WheelInit, WheelTypeOK, Positions
<1>2. (CHOOSE i \in Intervals : TRUE) \in Intervals
  BY CommandTimersAssumption
<1>3. objs \in [Objs -> Timers]
  BY <1>2 DEF Init, Timers
<1>4. DOMAIN commands = {}
  BY DEF Init
<1>5. QED
  BY <1>1, <1>3, <1>4 DEF Init, TypeOK

\* Commands, timers, tasks and the wheel keep their shapes.
LEMMA Types == Spec => []TypeOK
  BY InitTypes, CommandTypes, PTL DEF Spec

\* Through every sequence of commands, crashes and restarts, and for every
\* interval, no timer is ever overdue.
THEOREM CommandsNeverLate == Spec => []NeverOverdue
<1>1. Init => EarlyInv
  BY DEF Init, WheelInit, EarlyInv
<1>2. TypeOK /\ EarlyInv /\ [Next]_vars => EarlyInv'
  BY StepsOfTheWheel, OldOrNewEarly, TickKeepsEarly DEF TypeOK
<1>3. TypeOK /\ EarlyInv => NeverOverdue
  BY EarlyIsInTime DEF TypeOK
<1>4. QED
  BY <1>1, <1>2, <1>3, Types, PTL DEF Spec

(***************************************************************************)
(* What a command's timer has in the wheel.                                *)
(***************************************************************************)

\* Two commands never share a timer object.
Owned ==
    \A c, d \in Ids :
        HasTimer(c) /\ HasTimer(d) /\ commands[c].timer = commands[d].timer => c = d

\* What OffIsQuiet and OnIsScheduled say of one command.
OffFor(c) ==
    HasTimer(c) /\ ~ objs[commands[c].timer].enabled =>
        \A p \in Positions : InSlot(c, p) => slots[p][c].args.timer = commands[c].timer

OnFor(c) == HasTimer(c) /\ objs[commands[c].timer].enabled => c \in Present

\* A step about command c leaves the other commands, their timers and what
\* the wheel holds for them as they are, and takes no timer of theirs.
OthersKept(c) ==
    \A d \in Ids \ {c} :
        /\ HasTimer(d)' <=> HasTimer(d)
        /\ HasTimer(d) =>
              /\ commands'[d].timer = commands[d].timer
              /\ objs'[commands[d].timer] = objs[commands[d].timer]
              /\ HasTimer(c)' => commands'[c].timer # commands[d].timer
        /\ \A p \in Positions :
              /\ InSlot(d, p)' <=> InSlot(d, p)
              /\ InSlot(d, p) => slots'[p][d] = slots[p][d]

OffInv == Owned /\ \A c \in Ids : OffFor(c)

OnInv == \A c \in Ids : OnFor(c)

\* So only what the step makes of c has to be looked at.
LEMMA OneCommand ==
    ASSUME TypeOK, OffInv, NEW c \in Ids, OthersKept(c),
           OffFor(c)', OnFor(c) => OnFor(c)'
    PROVE  OffInv' /\ (OnInv => OnInv')
<1>1. ASSUME NEW d \in Ids \ {c}
      PROVE  OffFor(d)' /\ (OnFor(d) => OnFor(d)')
  BY DEF OthersKept, OffInv, OffFor, OnFor, Present
<1>2. Owned'
  BY DEF OthersKept, OffInv, Owned
<1>3. QED
  BY <1>1, <1>2 DEF OffInv, OnInv

\* What adding and removing do to the slots.
LEMMA SlotsAdded ==
    ASSUME WheelTypeOK, NEW c \in Ids, NEW interval \in Intervals, NEW args \in Args,
           UNCHANGED currentPos,
           \/ slots' = AddTo(slots, c, interval, args)
           \/ slots' = AddTo(RemoveFrom(slots, c), c, interval, args)
    PROVE  /\ c \in Present'
           /\ \A d \in Ids \ {c}, p \in Positions :
                 /\ InSlot(d, p)' <=> InSlot(d, p)
                 /\ InSlot(d, p) => slots'[p][d] = slots[p][d]
           /\ slots' = AddTo(RemoveFrom(slots, c), c, interval, args)
                => \A p \in Positions : InSlot(c, p)' => slots'[p][c].args = args
<1>1. PosAfter(interval) \in Positions /\ DOMAIN slots = Positions
  BY Landing DEF PosAfter, WheelTypeOK
<1>2. ASSUME slots' = AddTo(slots, c, interval, args)
      PROVE  /\ c \in Present'
             /\ \A d \in Ids \ {c}, p \in Positions :
                   /\ InSlot(d, p)' <=> InSlot(d, p)
                   /\ InSlot(d, p) => slots'[p][d] = slots[p][d]
  BY <1>1, <1>2 DEF AddTo, Override, InSlot, Present
<1>3. ASSUME slots' = AddTo(RemoveFrom(slots, c), c, interval, args)
      PROVE  /\ c \in Present'
             /\ \A d \in Ids \ {c}, p \in Positions :
                   /\ InSlot(d, p)' <=> InSlot(d, p)
                   /\ InSlot(d, p) => slots'[p][d] = slots[p][d]
  BY <1>1, <1>3 DEF AddTo, RemoveFrom, Without, Override, InSlot, Present, NewTimer
<1>4. ASSUME slots' = AddTo(RemoveFrom(slots, c), c, interval, args),
             NEW p \in Positions, InSlot(c, p)'
      PROVE  slots'[p][c].args = args
  BY <1>1, <1>4 DEF AddTo, RemoveFrom, Without, Override, InSlot, NewTimer
<1>5. QED
  BY <1>2, <1>3, <1>4

\* Removing a command takes it out of every slot and touches no other.
LEMMA SlotsRemoved ==
    ASSUME WheelTypeOK, NEW c \in Ids, slots' = RemoveFrom(slots, c)
    PROVE  /\ \A p \in Positions : ~ InSlot(c, p)'
           /\ \A d \in Ids \ {c}, p \in Positions :
                 /\ InSlot(d, p)' <=> InSlot(d, p)
                 /\ InSlot(d, p) => slots'[p][d] = slots[p][d]
BY DEF RemoveFrom, Without, InSlot

\* A tick hands on what the timers carry.
LEMMA TickKeepsArgs ==
    ASSUME WheelTypeOK, Tick, NEW p \in Positions, NEW c \in DOMAIN slots'[p]
    PROVE  \E q \in Positions : c \in DOMAIN slots[q] /\ slots'[p][c].args = slots[q][c].args
<1>1. currentPos \in Positions /\ slots' = [q \in Positions |-> AfterVisit(q)]
  BY DEF Tick, WheelTypeOK
<1>2. CASE p = currentPos
  <2>1. c \in Waiting /\ slots'[p][c] = [OneMore(slots[p][c]) EXCEPT !.rounds = @ - 1]
    BY <1>1, <1>2 DEF AfterVisit
  <2>2. c \in DOMAIN slots[p] /\ slots[p][c] \in Timer
    BY <1>2, <2>1 DEF Waiting, WheelTypeOK
  <2>3. QED
    BY <2>1, <2>2 DEF OneMore, Timer
<1>3. CASE p # currentPos /\ c \in DOMAIN Rearmed(p)
  <2>1. /\ c \in DOMAIN slots[currentPos]
        /\ slots'[p][c] = [slots[currentPos][c] EXCEPT !.elapsed = 1]
    BY <1>1, <1>3 DEF AfterVisit, Override, Rearmed, Due
  <2>2. slots[currentPos][c] \in Timer
    BY <1>1, <2>1 DEF WheelTypeOK
  <2>3. QED
    BY <1>1, <2>1, <2>2 DEF Timer
<1>4. CASE p # currentPos /\ c \notin DOMAIN Rearmed(p)
  <2>1. c \in DOMAIN slots[p] /\ slots'[p][c] = OneMore(slots[p][c])
    BY <1>1, <1>4 DEF AfterVisit, Override
  <2>2. slots[p][c] \in Timer
    BY <2>1 DEF WheelTypeOK
  <2>3. QED
    BY <2>1, <2>2 DEF OneMore, Timer
<1>5. QED
  BY <1>2, <1>3, <1>4

\* "!am cmd add", "set" and "del".
LEMMA TextCommandKeeps ==
    ASSUME TypeOK, OffInv, NEW c \in Ids, NEW text \in Texts,
           AddCommand(c, text) \/ SetCommand(c, text) \/ DelCommand(c)
    PROVE  OffInv' /\ (OnInv => OnInv')
<1>1. UNCHANGED <<slots, objs>>
  BY DEF AddCommand, SetCommand, DelCommand
<1>2. OffFor(c)
  BY DEF OffInv
<1>3. \A d \in Ids \ {c} :
         /\ d \in DOMAIN commands' <=> d \in DOMAIN commands
         /\ d \in DOMAIN commands => commands'[d] = commands[d]
  BY DEF AddCommand, SetCommand, DelCommand, Override, Without
<1>4. HasTimer(c)' => HasTimer(c) /\ commands'[c].timer = commands[c].timer
  <2>1. CASE AddCommand(c, text)
    BY <2>1 DEF AddCommand, Override, HasTimer
  <2>2. CASE SetCommand(c, text)
    <3>1. c \in DOMAIN commands /\ commands[c] \in Command
      BY <2>2 DEF SetCommand, TypeOK
    <3>2. commands'[c] = [commands[c] EXCEPT !.text = text]
      BY <2>2, <3>1 DEF SetCommand
    <3>3. QED
      BY <3>1, <3>2 DEF Command, HasTimer
  <2>3. CASE DelCommand(c)
    BY <2>3 DEF DelCommand, Without, HasTimer
  <2>4. QED
    BY <2>1, <2>2, <2>3
<1>5. OthersKept(c)
  BY <1>1, <1>3, <1>4 DEF OthersKept, OffInv, Owned, HasTimer, InSlot
<1>6. OffFor(c)' /\ (OnFor(c) => OnFor(c)')
  BY <1>1, <1>2, <1>4 DEF OffFor, OnFor, InSlot, Present
<1>7. QED
  BY <1>5, <1>6, OneCommand

\* "!am cmd timer add": the object is nobody's yet, and enabled.
LEMMA AddTimerKeeps ==
    ASSUME TypeOK, OffInv, NEW c \in Ids, NEW interval \in Intervals, NEW o \in Objs,
           AddCommandTimer(c, interval, o)
    PROVE  OffInv' /\ (OnInv => OnInv')
<1>1. /\ c \in DOMAIN commands /\ commands[c] \in Command
      /\ commands' = [commands EXCEPT ![c].timer = o]
      /\ objs' = [objs EXCEPT ![o] = [enabled |-> TRUE, interval |-> interval]]
      /\ objs \in [Objs -> Timers]
  BY DEF AddCommandTimer, TypeOK
<1>2. \A d \in DOMAIN commands : commands[d].timer # o
  BY DEF AddCommandTimer, Referenced
<1>3. /\ c \in Present'
      /\ \A d \in Ids \ {c}, p \in Positions :
            /\ InSlot(d, p)' <=> InSlot(d, p)
            /\ InSlot(d, p) => slots'[p][d] = slots[p][d]
  <2>1. [text |-> commands[c].text, timer |-> o] \in Args
    BY <1>1, ArgsType DEF Command
  <2>2. slots' = AddTo(slots, c, interval, [text |-> commands[c].text, timer |-> o])
    BY DEF AddCommandTimer, Register
  <2>3. UNCHANGED currentPos /\ WheelTypeOK
    BY DEF AddCommandTimer, AdminOnly, TypeOK
  <2>4. QED
    BY <2>1, <2>2, <2>3, SlotsAdded
<1>4. /\ DOMAIN commands' = DOMAIN commands
      /\ commands'[c].timer = o
      /\ \A d \in DOMAIN commands \ {c} : commands'[d] = commands[d]
  <2>1. commands'[c] = [commands[c] EXCEPT !.timer = o]
    BY <1>1
  <2>2. QED
    BY <1>1, <2>1 DEF Command
<1>5. objs'[o].enabled = TRUE /\ \A q \in Objs \ {o} : objs'[q] = objs[q]
  BY <1>1
<1>6. \A d \in Ids : HasTimer(d) => commands[d].timer \in Objs
  BY TimerTypes
<1>7. OthersKept(c)
  BY <1>2, <1>3, <1>4, <1>5, <1>6 DEF OthersKept, HasTimer
<1>8. OffFor(c)' /\ OnFor(c)'
  BY <1>3, <1>4, <1>5 DEF OffFor, OnFor
<1>9. QED
  BY <1>7, <1>8, OneCommand

\* "!am cmd timer del": nothing is left of the command's timer.
LEMMA DelTimerKeeps ==
    ASSUME TypeOK, OffInv, NEW c \in Ids, DelCommandTimer(c)
    PROVE  OffInv' /\ (OnInv => OnInv')
<1>1. /\ c \in DOMAIN commands /\ commands[c] \in Command
      /\ commands' = [commands EXCEPT ![c].timer = None]
      /\ UNCHANGED objs
      /\ slots' = RemoveFrom(slots, c)
  BY DEF DelCommandTimer, TypeOK
<1>2. /\ DOMAIN commands' = DOMAIN commands
      /\ commands'[c].timer = None
      /\ \A d \in DOMAIN commands \ {c} : commands'[d] = commands[d]
  <2>1. commands'[c] = [commands[c] EXCEPT !.timer = None]
    BY <1>1
  <2>2. QED
    BY <1>1, <2>1 DEF Command
<1>3. \A d \in Ids \ {c}, p \in Positions :
         /\ InSlot(d, p)' <=> InSlot(d, p)
         /\ InSlot(d, p) => slots'[p][d] = slots[p][d]
  BY <1>1, SlotsRemoved DEF TypeOK
<1>4. OthersKept(c) /\ OffFor(c)' /\ OnFor(c)'
  BY <1>1, <1>2, <1>3 DEF OthersKept, OffFor, OnFor, HasTimer
<1>5. QED
  BY <1>4, OneCommand

\* "!am cmd timer on", "off" and "set" change the object of the command's
\* timer, and of no other's.
LEMMA OwnObject ==
    ASSUME TypeOK, OffInv, NEW c \in Ids, HasTimer(c), UNCHANGED commands,
           \A q \in Objs \ {commands[c].timer} : objs'[q] = objs[q],
           \A d \in Ids \ {c}, p \in Positions :
               /\ InSlot(d, p)' <=> InSlot(d, p)
               /\ InSlot(d, p) => slots'[p][d] = slots[p][d]
    PROVE  OthersKept(c)
<1>1. \A d \in Ids : HasTimer(d) => commands[d].timer \in Objs
  BY TimerTypes
<1>2. QED
  BY <1>1 DEF OthersKept, OffInv, Owned, HasTimer

\* Switching a timer on registers a further copy, with the same timer object.
LEMMA TimerOnKeeps ==
    ASSUME TypeOK, OffInv, NEW c \in Ids, TimerOn(c)
    PROVE  OffInv' /\ (OnInv => OnInv')
<1> DEFINE o == commands[c].timer
<1>1. HasTimer(c) /\ UNCHANGED <<commands, currentPos>> /\ WheelTypeOK
  BY DEF TimerOn, AdminOnly, TypeOK
<1>2. /\ o \in Objs /\ objs[o].interval \in Intervals
      /\ [text |-> commands[c].text, timer |-> o] \in Args
      /\ objs \in [Objs -> Timers]
  BY <1>1, TimerTypes DEF TypeOK
<1>3. /\ objs' = [objs EXCEPT ![o].enabled = TRUE]
      /\ slots' = AddTo(slots, c, objs[o].interval,
                        [text |-> commands[c].text, timer |-> o])
  BY DEF TimerOn, Register
<1>4. objs'[o].enabled = TRUE /\ \A q \in Objs \ {o} : objs'[q] = objs[q]
  BY <1>2, <1>3 DEF Timers
<1>5. /\ c \in Present'
      /\ \A d \in Ids \ {c}, p \in Positions :
            /\ InSlot(d, p)' <=> InSlot(d, p)
            /\ InSlot(d, p) => slots'[p][d] = slots[p][d]
  BY <1>1, <1>2, <1>3, SlotsAdded
<1>6. OthersKept(c)
  BY <1>1, <1>4, <1>5, OwnObject
<1>7. OffFor(c)' /\ OnFor(c)'
  BY <1>1, <1>4, <1>5 DEF OffFor, OnFor
<1>8. QED
  BY <1>6, <1>7, OneCommand

\* Switching it off takes every copy out.
LEMMA TimerOffKeeps ==
    ASSUME TypeOK, OffInv, NEW c \in Ids, TimerOff(c)
    PROVE  OffInv' /\ (OnInv => OnInv')
<1> DEFINE o == commands[c].timer
<1>1. HasTimer(c) /\ UNCHANGED commands /\ WheelTypeOK
  BY DEF TimerOff, TypeOK
<1>2. o \in Objs /\ objs \in [Objs -> Timers]
  BY <1>1, TimerTypes DEF TypeOK
<1>3. objs' = [objs EXCEPT ![o].enabled = FALSE] /\ slots' = RemoveFrom(slots, c)
  BY DEF TimerOff
<1>4. objs'[o].enabled = FALSE /\ \A q \in Objs \ {o} : objs'[q] = objs[q]
  BY <1>2, <1>3 DEF Timers
<1>5. OthersKept(c)
  BY <1>1, <1>3, <1>4, SlotsRemoved, OwnObject
<1>6. \A p \in Positions : ~ InSlot(c, p)'
  BY <1>1, <1>3, SlotsRemoved
<1>7. OffFor(c)' /\ OnFor(c)'
  BY <1>1, <1>4, <1>6 DEF OffFor, OnFor
<1>8. QED
  BY <1>5, <1>7, OneCommand

\* Setting an interval replaces what is there, whether the timer is on or off.
LEMMA SetTimerKeeps ==
    ASSUME TypeOK, OffInv, NEW c \in Ids, NEW interval \in Intervals,
           SetCommandTimer(c, interval)
    PROVE  OffInv' /\ (OnInv => OnInv')
<1> DEFINE o == commands[c].timer
           args == [text |-> commands[c].text, timer |-> o]
<1>1. HasTimer(c) /\ UNCHANGED <<commands, currentPos>> /\ WheelTypeOK
  BY DEF SetCommandTimer, AdminOnly, TypeOK
<1>2. o \in Objs /\ args \in Args /\ objs \in [Objs -> Timers]
  BY <1>1, TimerTypes DEF TypeOK
<1>3. /\ objs' = [objs EXCEPT ![o].interval = interval]
      /\ slots' = AddTo(RemoveFrom(slots, c), c, interval, args)
  BY DEF SetCommandTimer, Register
<1>4. \A q \in Objs \ {o} : objs'[q] = objs[q]
  BY <1>2, <1>3
<1>5. /\ c \in Present'
      /\ \A d \in Ids \ {c}, p \in Positions :
            /\ InSlot(d, p)' <=> InSlot(d, p)
            /\ InSlot(d, p) => slots'[p][d] = slots[p][d]
      /\ \A p \in Positions : InSlot(c, p)' => slots'[p][c].args = args
  BY <1>1, <1>2, <1>3, SlotsAdded
<1>6. OthersKept(c)
  BY <1>1, <1>4, <1>5, OwnObject
<1>7. OffFor(c)' /\ OnFor(c)'
  BY <1>1, <1>5 DEF OffFor, OnFor
<1>8. QED
  BY <1>6, <1>7, OneCommand

\* A new process registers every timer once, enabled or not.
LEMMA StartUpKeeps ==
    ASSUME TypeOK, OffInv, StartUp
    PROVE  OffInv' /\ OnInv'
<1>1. UNCHANGED <<commands, objs>>
  BY DEF StartUp
<1>2. ASSUME NEW c \in Ids, NEW p \in Positions, InSlot(c, p)'
      PROVE  slots'[p][c].args.timer = commands[c].timer
  BY <1>2 DEF StartUp, InSlot, NewTimer
<1>3. ASSUME NEW c \in Ids, HasTimer(c)
      PROVE  c \in Present'
  <2> DEFINE p == objs[commands[c].timer].interval % SlotsCount
  <2>1. objs[commands[c].timer].interval \in Nat /\ c \in DOMAIN commands
    BY <1>3, TimerTypes, WheelAssumption
  <2>2. p \in Positions
    BY <2>1, ModRange, WheelAssumption DEF Positions
  <2>3. c \in DOMAIN slots'[p]
    BY <1>3, <2>1, <2>2 DEF StartUp
  <2>4. QED
    BY <2>2, <2>3 DEF Present, InSlot
<1>4. QED
  BY <1>1, <1>2, <1>3 DEF OffInv, OnInv, Owned, OffFor, OnFor, HasTimer

\* A tick changes nothing of what the timers carry, and loses none of an
\* interval shorter than a turn.
LEMMA TickKeepsCommands ==
    ASSUME TypeOK, OffInv, WheelTick
    PROVE  OffInv' /\ (PlacedInv /\ ShortIntervals /\ OnInv => OnInv')
<1>1. UNCHANGED <<commands, objs>> /\ Tick /\ WheelTypeOK
  BY DEF WheelTick, TypeOK
<1>2. ASSUME NEW c \in Ids, OffFor(c)
      PROVE  OffFor(c)'
  BY <1>1, <1>2, TickKeepsArgs DEF OffFor, HasTimer, InSlot
<1>3. PlacedInv /\ ShortIntervals => Present' = Present
  BY <1>1, TickKeepsPresent
<1>4. QED
  BY <1>1, <1>2, <1>3 DEF OffInv, OnInv, Owned, OnFor, HasTimer

\* One step of the commands, the tasks, the wheel or the process.
LEMMA StepKeepsCommands ==
    ASSUME TypeOK, OffInv, [Next]_vars
    PROVE  OffInv' /\ (PlacedInv /\ ShortIntervals /\ OnInv => OnInv')
<1>1. ASSUME NEW c \in Ids, NEW text \in Texts, AddCommand(c, text) \/ SetCommand(c, text)
      PROVE  OffInv' /\ (OnInv => OnInv')
  BY <1>1, TextCommandKeeps
<1>2. ASSUME NEW c \in Ids, DelCommand(c)
      PROVE  OffInv' /\ (OnInv => OnInv')
  <2>1. commands[c].text \in Texts
    BY <1>2 DEF DelCommand, TypeOK, Command
  <2>2. QED
    BY <1>2, <2>1, TextCommandKeeps
<1>3. ASSUME NEW c \in Ids, NEW interval \in Intervals,
             \/ SetCommandTimer(c, interval)
             \/ \E o \in Objs : AddCommandTimer(c, interval, o)
      PROVE  OffInv' /\ (OnInv => OnInv')
  BY <1>3, SetTimerKeeps, AddTimerKeeps
<1>4. ASSUME NEW c \in Ids, DelCommandTimer(c) \/ TimerOn(c) \/ TimerOff(c)
      PROVE  OffInv' /\ (OnInv => OnInv')
  BY <1>4, DelTimerKeeps, TimerOnKeeps, TimerOffKeeps
<1>5. ASSUME Restart \/ \E c \in Ids : Panic(c)
      PROVE  OffInv' /\ (OnInv => OnInv')
  BY <1>5, StartUpKeeps DEF Restart, Panic
<1>6. ASSUME UNCHANGED vars \/ \E task \in pending : RunTask(task)
      PROVE  OffInv' /\ (OnInv => OnInv')
  <2>1. UNCHANGED <<slots, commands, objs>>
    BY <1>6 DEF vars, RunTask
  <2>2. QED
    BY <2>1 DEF OffInv, OnInv, Owned, OffFor, OnFor, HasTimer, InSlot, Present
<1>7. QED
  BY <1>1, <1>2, <1>3, <1>4, <1>5, <1>6, TickKeepsCommands DEF Next

\* What is off, and whose the timer objects are, for all behaviours.
LEMMA OffAlways == Spec => []OffInv
<1>1. Init => OffInv
  BY DEF Init, OffInv, Owned, OffFor, HasTimer
<1>2. TypeOK /\ OffInv /\ [Next]_vars => OffInv'
  BY StepKeepsCommands
<1>3. QED
  BY <1>1, <1>2, Types, PTL DEF Spec

\* Once a command's timer is switched off, the wheel holds no other copy for
\* the command, whatever was added, replaced and restarted before, and
\* whatever the intervals.
THEOREM OffIsAlwaysQuiet == Spec => []OffIsQuiet
<1>1. TypeOK /\ OffInv => OffIsQuiet
  BY DEF OffInv, OffFor, OffIsQuiet
<1>2. QED
  BY <1>1, Types, OffAlways, PTL

\* With intervals shorter than a turn every timer sits where the wheel will
\* find it when its interval is over, also through commands and restarts.
LEMMA CommandsPlaced == ASSUME ShortIntervals PROVE Spec => []PlacedInv
<1>1. Init => PlacedInv
  BY DEF Init, WheelInit, PlacedInv
<1>2. TypeOK /\ PlacedInv /\ [Next]_vars => PlacedInv'
  BY ShortIntervals, StepsOfTheWheel, OldOrNewPlaced, TickKeepsPlaced DEF TypeOK
<1>3. QED
  BY <1>1, <1>2, Types, PTL DEF Spec

\* With such intervals a command whose timer is on has something in the wheel.
THEOREM OnIsAlwaysScheduled == ASSUME ShortIntervals PROVE Spec => []OnIsScheduled
<1>1. Init => OnInv
  BY DEF Init, OnInv, OnFor, HasTimer
<1>2. TypeOK /\ OffInv /\ PlacedInv /\ OnInv /\ [Next]_vars => OnInv'
  BY ShortIntervals, StepKeepsCommands
<1>3. OnInv => OnIsScheduled
  BY DEF OnInv, OnFor, OnIsScheduled
<1>4. QED
  BY <1>1, <1>2, <1>3, Types, OffAlways, CommandsPlaced, ShortIntervals, PTL DEF Spec

(***************************************************************************)
(* The commands implement the countdowns.                                  *)
(***************************************************************************)

\* Removing before adding replaces all countdowns of the id by one.
LEMMA ReplaceIsReplace ==
    ASSUME WheelTypeOK, ShortIntervals,
           NEW id \in Ids, NEW interval \in Intervals, NEW args \in Args,
           slots' = AddTo(RemoveFrom(slots, id), id, interval, args),
           UNCHANGED currentPos, Abstract!Quietly
    PROVE  Abstract!Replace(id, interval, args)
<1>1. interval \in 0 .. SlotsCount - 1
  BY DEF ShortIntervals
<1> PICK q \in Positions : /\ q = PosAfter(interval)
                           /\ Left(SlotsCount, currentPos, q) = interval
  BY <1>1, LeftFacts
<1> PICK new : new = Abstract!Fresh(id, interval, args)
  OBVIOUS
<1>2. /\ slots'[q][id] = NewTimer(interval, args)
      /\ \A p \in Positions : \A i :
            i \in DOMAIN slots'[p]
              <=> (p = q /\ i = id) \/ (i # id /\ i \in DOMAIN slots[p])
      /\ \A p \in Positions : \A i \in DOMAIN slots'[p] \ {id} :
            slots'[p][i] = slots[p][i]
  BY DEF AddTo, RemoveFrom, Without, Override
<1>3. CountdownAt(slots', currentPos', id, q) = new
  BY <1>2 DEF CountdownAt, NewTimer, Abstract!Fresh
<1>4. \A p \in Positions : \A i \in DOMAIN slots'[p] \ {id} :
         CountdownAt(slots', currentPos', i, p) = CountdownAt(slots, currentPos, i, p)
  BY <1>2 DEF CountdownAt
<1>5. \A p, i : CountdownAt(slots, currentPos, i, p).id = i
  BY DEF CountdownAt
<1>6. \A c : c \in Countdowns' <=> c = new \/ (c \in Countdowns /\ c.id # id)
  <2>1. ASSUME NEW c \in Countdowns', c # new
        PROVE  c \in Countdowns /\ c.id # id
    <3>1. PICK p \in Positions : \E i \in DOMAIN slots'[p] :
                 c = CountdownAt(slots', currentPos', i, p)
      BY CountdownsAre
    <3>2. PICK i \in DOMAIN slots'[p] : c = CountdownAt(slots', currentPos', i, p)
      BY <3>1
    <3>3. i # id
      BY <1>2, <1>3, <2>1, <3>2
    <3>4. QED
      BY <1>2, <1>4, <1>5, <3>2, <3>3, CountdownsAre
  <2>2. new \in Countdowns'
    BY <1>2, <1>3, CountdownsAre
  <2>3. ASSUME NEW c \in Countdowns, c.id # id
        PROVE  c \in Countdowns'
    <3>1. PICK p \in Positions : \E i \in DOMAIN slots[p] :
                 c = CountdownAt(slots, currentPos, i, p)
      BY CountdownsAre
    <3>2. PICK i \in DOMAIN slots[p] : c = CountdownAt(slots, currentPos, i, p)
      BY <3>1
    <3>3. QED
      BY <1>2, <1>4, <1>5, <2>3, <3>2, CountdownsAre
  <2>4. QED
    BY <2>1, <2>2, <2>3
<1>7. Countdowns' = {c \in Countdowns : c.id # id} \cup {new}
  BY <1>6
<1>8. QED
  BY <1>7 DEF Abstract!Replace

\* A new process starts one countdown for each command with a timer.
LEMMA StartUpIsRestart ==
    ASSUME TypeOK, ShortIntervals, StartUp
    PROVE  Abstract!Restart
<1>1. currentPos' = 0 /\ fired' = {} /\ 0 \in Positions
  BY WheelAssumption DEF StartUp, Positions
<1> DEFINE interval(c) == objs[commands[c].timer].interval
           args(c) == [text |-> commands[c].text, timer |-> commands[c].timer]
\* The countdown of a command starts from its beginning.
<1>2. ASSUME NEW p \in Positions, NEW c \in DOMAIN slots'[p]
      PROVE  /\ c \in Ids /\ interval(c) \in Intervals /\ args(c) \in Args
             /\ CountdownAt(slots', currentPos', c, p)
                  = Abstract!Fresh(c, interval(c), args(c))
  <2>1. /\ c \in DOMAIN commands /\ HasTimer(c)
        /\ interval(c) % SlotsCount = p
        /\ slots'[p][c] = NewTimer(interval(c), args(c))
    BY <1>2 DEF StartUp
  <2>2. c \in Ids
    BY <2>1 DEF TypeOK
  <2>3. interval(c) \in Intervals /\ args(c) \in Args
    BY <2>1, <2>2, TimerTypes
  <2> HIDE DEF interval, args
  <2>4. interval(c) \in 0 .. SlotsCount - 1 /\ 0 \in 0 .. SlotsCount - 1
    <3>1. interval(c) \in 1 .. SlotsCount - 1
      BY <2>3 DEF ShortIntervals
    <3>2. QED
      BY <3>1, WheelAssumption
  <2>5. p = interval(c) /\ 0 + interval(c) = interval(c)
    BY <2>1, <2>4, ModSmall, WheelAssumption
  <2>6. Left(SlotsCount, 0, p) = interval(c)
    <3>1. Left(SlotsCount, 0, (0 + interval(c)) % SlotsCount) = interval(c)
      BY <2>4, LeftAfter, WheelAssumption
    <3>2. QED
      BY <3>1, <2>1, <2>5
  <2>7. QED
    BY <1>1, <2>1, <2>2, <2>3, <2>6 DEF CountdownAt, NewTimer, Abstract!Fresh
<1>3. \A c \in Countdowns' :
         /\ c.id \in Ids /\ interval(c.id) \in Intervals /\ args(c.id) \in Args
         /\ c = Abstract!Fresh(c.id, interval(c.id), args(c.id))
  <2> SUFFICES ASSUME NEW c \in Countdowns'
               PROVE  /\ c.id \in Ids /\ interval(c.id) \in Intervals
                      /\ args(c.id) \in Args
                      /\ c = Abstract!Fresh(c.id, interval(c.id), args(c.id))
    OBVIOUS
  <2>1. PICK p \in Positions : \E i \in DOMAIN slots'[p] :
               c = CountdownAt(slots', currentPos', i, p)
    BY CountdownsAre
  <2>2. PICK i \in DOMAIN slots'[p] : c = CountdownAt(slots', currentPos', i, p)
    BY <2>1
  <2>3. c.id = i
    BY <2>2 DEF CountdownAt
  <2>4. QED
    BY <1>2, <2>2, <2>3
<1> HIDE DEF interval, args
<1>4. Countdowns' \subseteq {Abstract!Fresh(i, n, a) : i \in Ids, n \in Intervals, a \in Args}
  BY <1>3
<1>5. \A c, d \in Countdowns' : c.id = d.id => c = d
  BY <1>3
<1>6. QED
  BY <1>1, <1>4, <1>5 DEF Abstract!Restart

\* With intervals shorter than a turn the commands, crashes and restarts over
\* the wheel implement the countdowns, like the wheel by itself.
THEOREM CommandsImplementCountdown ==
    ASSUME ShortIntervals
    PROVE  Spec => ImplementsCountdown
<1>1. Init => Abstract!Init
  BY CountdownsAre DEF Init, WheelInit, Abstract!Init
<1>2. TypeOK /\ PlacedInv /\ [Next]_vars
        => [Abstract!Next]_<<Countdowns, fired>>
  <2> SUFFICES ASSUME TypeOK, PlacedInv, [Next]_vars
               PROVE  [Abstract!Next]_<<Countdowns, fired>>
    OBVIOUS
  <2>0. WheelTypeOK
    BY DEF TypeOK
  <2>1. CASE UNCHANGED <<slots, currentPos>> /\ Abstract!Quietly
    <3>1. UNCHANGED Countdowns
      BY <2>1 DEF Countdowns, TicksUntil
    <3>2. QED
      BY <2>1, <3>1 DEF Abstract!Idle, Abstract!Next
  <2>2. ASSUME NEW c \in Ids, NEW interval \in Intervals, NEW o \in Objs,
               AddCommandTimer(c, interval, o)
        PROVE  Abstract!Next
    <3> DEFINE args == [text |-> commands[c].text, timer |-> o]
    <3>1. args \in Args
      BY <2>2, ArgsType DEF AddCommandTimer, TypeOK, Command
    <3>2. /\ slots' = AddTo(slots, c, interval, args)
          /\ UNCHANGED currentPos /\ Abstract!Quietly
      BY <2>2 DEF AddCommandTimer, Register, AdminOnly, Abstract!Quietly
    <3>3. Abstract!Add(c, interval, args)
      BY <2>0, <3>1, <3>2, ShortIntervals, AddIsAdd
    <3>4. QED
      BY <3>1, <3>3 DEF Abstract!Next
  <2>3. ASSUME NEW c \in Ids, DelCommandTimer(c) \/ TimerOff(c)
        PROVE  Abstract!Next
    <3>1. /\ slots' = RemoveFrom(slots, c)
          /\ UNCHANGED currentPos /\ Abstract!Quietly
      BY <2>3 DEF DelCommandTimer, TimerOff, AdminOnly, Abstract!Quietly
    <3>2. Abstract!Remove(c)
      BY <2>0, <3>1, RemoveIsRemove
    <3>3. QED
      BY <3>2 DEF Abstract!Next
  <2>4. ASSUME NEW c \in Ids, TimerOn(c)
        PROVE  Abstract!Next
    <3> DEFINE o == commands[c].timer
               args == [text |-> commands[c].text, timer |-> o]
    <3>1. args \in Args /\ objs[o].interval \in Intervals
      BY <2>4, TimerTypes DEF TimerOn
    <3>2. /\ slots' = AddTo(slots, c, objs[o].interval, args)
          /\ UNCHANGED currentPos /\ Abstract!Quietly
      BY <2>4 DEF TimerOn, Register, AdminOnly, Abstract!Quietly
    <3>3. Abstract!Add(c, objs[o].interval, args)
      BY <2>0, <3>1, <3>2, ShortIntervals, AddIsAdd
    <3>4. QED
      BY <3>1, <3>3 DEF Abstract!Next
  <2>5. ASSUME NEW c \in Ids, NEW interval \in Intervals, SetCommandTimer(c, interval)
        PROVE  Abstract!Next
    <3> DEFINE args == [text |-> commands[c].text, timer |-> commands[c].timer]
    <3>1. args \in Args
      BY <2>5, TimerTypes DEF SetCommandTimer
    <3>2. /\ slots' = AddTo(RemoveFrom(slots, c), c, interval, args)
          /\ UNCHANGED currentPos /\ Abstract!Quietly
      BY <2>5 DEF SetCommandTimer, Register, AdminOnly, Abstract!Quietly
    <3>3. Abstract!Replace(c, interval, args)
      BY <2>0, <3>1, <3>2, ShortIntervals, ReplaceIsReplace
    <3>4. QED
      BY <3>1, <3>3 DEF Abstract!Next
  <2>6. CASE StartUp
    BY <2>6, ShortIntervals, StartUpIsRestart DEF Abstract!Next
  <2>7. CASE WheelTick
    BY <2>0, <2>7, ShortIntervals, TickIsTick DEF WheelTick, Abstract!Next
  <2>8. ASSUME NEW c \in Ids, NEW text \in Texts,
               AddCommand(c, text) \/ SetCommand(c, text) \/ DelCommand(c)
        PROVE  UNCHANGED <<slots, currentPos>> /\ Abstract!Quietly
    BY <2>8 DEF AddCommand, SetCommand, DelCommand, AdminOnly, Abstract!Quietly
  <2>9. ASSUME NEW c \in Ids, DelCommand(c)
        PROVE  UNCHANGED <<slots, currentPos>> /\ Abstract!Quietly
    BY <2>9 DEF DelCommand, AdminOnly, Abstract!Quietly
  <2>10. ASSUME UNCHANGED vars \/ \E task \in pending : RunTask(task)
         PROVE  UNCHANGED <<slots, currentPos>> /\ Abstract!Quietly
    BY <2>10 DEF vars, RunTask, Abstract!Quietly
  <2>11. QED
    BY <2>1, <2>2, <2>3, <2>4, <2>5, <2>6, <2>7, <2>8, <2>9, <2>10
       DEF Next, Panic, Restart
<1>3. QED
  BY <1>1, <1>2, ShortIntervals, CommandsPlaced, Types, PTL
     DEF Spec, ImplementsCountdown, Abstract!Spec
=============================================================================
