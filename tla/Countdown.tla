------------------------------ MODULE Countdown ------------------------------
(***************************************************************************)
(* What a user of the timers is promised, with nothing of the wheel: a set *)
(* of repeating countdowns, each over exactly one interval after it was    *)
(* started and again one interval later, until it is removed.  TimingWheel *)
(* implements this for intervals shorter than a turn, and so does          *)
(* CommandTimers through its commands, crashes and restarts.               *)
(*                                                                         *)
(* Starting a countdown leaves others of the same id running; only two     *)
(* that would be over in the same tick are one.                            *)
(***************************************************************************)
EXTENDS Naturals

CONSTANTS Ids, Args, Intervals

VARIABLES
    countdowns,  \* [id, interval, args, left], left in ticks
    fired        \* <<id, args>> of the tasks the last tick started

Fresh(id, interval, args) ==
    [id |-> id, interval |-> interval, args |-> args, left |-> interval]

Same(c, d) == c.id = d.id /\ c.left = d.left

\* The countdowns of N run from now on; they take the place of their like.
Joined(S, N) == {c \in S : \A n \in N : ~ Same(c, n)} \cup N

Init == countdowns = {} /\ fired = {}

\* What the last tick has started may be forgotten, not changed.
Quietly == fired' = fired \/ fired' = {}

Add(id, interval, args) ==
    /\ countdowns' = Joined(countdowns, {Fresh(id, interval, args)})
    /\ Quietly

Remove(id) ==
    /\ countdowns' = {c \in countdowns : c.id # id}
    /\ Quietly

Replace(id, interval, args) ==
    /\ countdowns' = {c \in countdowns : c.id # id} \cup {Fresh(id, interval, args)}
    /\ Quietly

Over == {c \in countdowns : c.left = 0}

Tick ==
    /\ fired' = {<<c.id, c.args>> : c \in Over}
    /\ countdowns' = Joined({[c EXCEPT !.left = @ - 1] : c \in countdowns \ Over},
                            {[c EXCEPT !.left = c.interval - 1] : c \in Over})

\* A new process: some ids have one countdown each, from its beginning.
Restart ==
    /\ countdowns' \subseteq {Fresh(id, interval, args) :
                                id \in Ids, interval \in Intervals, args \in Args}
    /\ \A c, d \in countdowns' : c.id = d.id => c = d
    /\ fired' = {}

Idle == UNCHANGED countdowns /\ Quietly

Next ==
    \/ \E id \in Ids, interval \in Intervals, args \in Args :
          Add(id, interval, args) \/ Replace(id, interval, args)
    \/ \E id \in Ids : Remove(id)
    \/ Tick
    \/ Restart
    \/ Idle

Spec == Init /\ [][Next]_<<countdowns, fired>>
=============================================================================
