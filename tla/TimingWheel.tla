---------------------------- MODULE TimingWheel ----------------------------
(***************************************************************************)
(* infrastructure/timers/timers.go: a wheel of SlotsCount slots, each a    *)
(* map from timer id to timer; one tick visits one slot.  Time is counted  *)
(* in ticks (the code divides every interval by tickDuration, and all      *)
(* intervals are multiples of it).  Every caller passes repeat = true, so  *)
(* all timers repeat.  AddTimer, RemoveTimer and the body of the tick loop *)
(* hold the mutex and are one step each.                                   *)
(*                                                                         *)
(* "elapsed" is not in the code: it counts the ticks since a timer was     *)
(* added or last fired, and is what the properties compare the interval to.*)
(***************************************************************************)
EXTENDS Naturals, FiniteSets

CONSTANTS
    Ids,         \* timer ids: names of chat commands
    Args,        \* what AddTimer's caller hands to the task
    Intervals,   \* intervals in ticks
    SlotsCount,  \* number of slots
    MaxElapsed   \* model bound on the elapsed counter

ASSUME WheelAssumption ==
    /\ SlotsCount \in Nat \ {0}
    /\ Intervals \subseteq Nat \ {0}
    /\ MaxElapsed \in Nat

VARIABLES
    slots,       \* slot position -> timer id -> timer
    currentPos,  \* the slot the next tick visits
    fired        \* <<id, args>> of the tasks the last tick started

wheelVars == <<slots, currentPos, fired>>

Positions == 0 .. SlotsCount - 1

Timer == [interval : Intervals, rounds : Nat, args : Args, elapsed : Nat]

\* Mutant: counted from the slot after the one the next tick visits.
PosAfterNext(interval) == (currentPos + 1 + interval) % SlotsCount

\* Mutant: one full turn too many.
RoundsOfOneMore(interval) == interval \div SlotsCount + 1

\* The slot an interval from now, and the full turns before it is due.
PosAfter(interval) == (currentPos + interval) % SlotsCount
RoundsOf(interval) == interval \div SlotsCount

InSlot(id, p) == id \in DOMAIN slots[p]

\* The map f without the ids in S, and the map f overridden by g.
Without(f, S)   == [id \in DOMAIN f \ S |-> f[id]]
Override(f, g)  == [id \in DOMAIN f \cup DOMAIN g |->
                       IF id \in DOMAIN g THEN g[id] ELSE f[id]]

NewTimer(interval, args) ==
    [interval |-> interval, rounds |-> RoundsOf(interval),
     args |-> args, elapsed |-> 0]

WheelInit ==
    /\ slots = [p \in Positions |-> <<>>]
    /\ currentPos = 0
    /\ fired = {}

-----------------------------------------------------------------------------

\* Only the slot the timer lands in is looked at: a timer of the same id in
\* another slot stays there.
AddTo(s, id, interval, args) ==
    [s EXCEPT ![PosAfter(interval)] =
        Override(@, [i \in {id} |-> NewTimer(interval, args)])]

AddTimer(id, interval, args) ==
    /\ slots' = AddTo(slots, id, interval, args)
    /\ UNCHANGED <<currentPos, fired>>

\* Mutant: the search ends at the first slot that holds the id.
RemoveFirst(s, id) ==
    [p \in Positions |->
        IF \E q \in Positions : q < p /\ id \in DOMAIN s[q] THEN s[p]
        ELSE Without(s[p], {id})]

\* All copies go, whatever slots they are in.
RemoveFrom(s, id) == [p \in Positions |-> Without(s[p], {id})]

RemoveTimer(id) ==
    /\ slots' = RemoveFrom(slots, id)
    /\ UNCHANGED <<currentPos, fired>>

\* The timers of the current slot that are due, and those with turns to go.
Due     == {id \in DOMAIN slots[currentPos] : slots[currentPos][id].rounds = 0}

Waiting == DOMAIN slots[currentPos] \ Due

\* Mutant: a due timer is not put back.
RearmedNever(p) == <<>>

\* A due timer goes back into the wheel an interval ahead, with its rounds
\* left at 0; this tick is the first of the new interval.
Rearmed(p) ==
    [id \in {d \in Due : PosAfter(slots[currentPos][d].interval) = p} |->
        [slots[currentPos][id] EXCEPT !.elapsed = 1]]

OneMore(t) == [t EXCEPT !.elapsed = @ + 1]

\* What the visit makes of slot p: a due timer is deleted from the current
\* slot after it has been re-armed, so one re-armed into that very slot goes.
AfterVisit(p) ==
    IF p = currentPos
    THEN [id \in Waiting |->
            [OneMore(slots[p][id]) EXCEPT !.rounds = @ - 1]]
    ELSE Override([id \in DOMAIN slots[p] |-> OneMore(slots[p][id])],
                  Rearmed(p))

Tick ==
    /\ \A p \in Positions : \A id \in DOMAIN slots[p] :
          slots[p][id].elapsed <= MaxElapsed
    /\ fired' = {<<id, slots[currentPos][id].args>> : id \in Due}
    /\ slots' = [p \in Positions |-> AfterVisit(p)]
    /\ currentPos' = (currentPos + 1) % SlotsCount

WheelNext ==
    \/ \E id \in Ids, interval \in Intervals, args \in Args :
          AddTimer(id, interval, args)
    \/ \E id \in Ids : RemoveTimer(id)
    \/ Tick

WheelSpec == WheelInit /\ [][WheelNext]_wheelVars

-----------------------------------------------------------------------------
(* Properties.                                                             *)

WheelTypeOK ==
    /\ currentPos \in Positions
    /\ DOMAIN slots = Positions
    /\ \A p \in Positions :
          /\ DOMAIN slots[p] \subseteq Ids
          /\ \A id \in DOMAIN slots[p] : slots[p][id] \in Timer
    /\ fired \subseteq Ids \X Args

\* A task is started exactly one interval after its timer was added or last
\* fired: never early, never late.
FiresOnTime ==
    \A id \in Due :
        slots[currentPos][id].elapsed = slots[currentPos][id].interval

\* No timer is ever overdue: whatever slot it sits in, the wheel will reach
\* it when the interval is over.
NeverOverdue ==
    \A p \in Positions : \A id \in DOMAIN slots[p] :
        slots[p][id].elapsed <= slots[p][id].interval

Present == {id \in Ids : \E p \in Positions : InSlot(id, p)}

\* Visiting a slot loses no timer: one that was in the wheel stays in it
\* until RemoveTimer takes it out.
TickKeepsTimers == [][Tick => Present' = Present]_wheelVars

\* Ticks until the wheel visits slot p, and the timers as countdowns.
TicksUntil(p) == (p + SlotsCount - currentPos) % SlotsCount

Countdowns ==
    UNION {{[id |-> id, interval |-> slots[p][id].interval,
             args |-> slots[p][id].args, left |-> TicksUntil(p)]
              : id \in DOMAIN slots[p]} : p \in Positions}

Abstract == INSTANCE Countdown WITH countdowns <- Countdowns

\* The wheel implements the countdowns: slots, position and re-arming come
\* to the same as counting every timer down by itself.
ImplementsCountdown == Abstract!Spec
=============================================================================
