----------------------------- MODULE SpamPause -----------------------------
(***************************************************************************)
(* The pause of the anti-spam (domain/template/spam_pause.go).  "paused"   *)
(* and "endTime" are two atomics that nothing updates together: Pause runs *)
(* in an admin command (one at a time, under the configuration lock) and   *)
(* each pause starts a timer of its own, whose callback clears both.       *)
(*                                                                         *)
(* Time is counted in ticks; endTime is kept as the ticks left until it,   *)
(* 0 standing for the zero time and for a time that has passed.            *)
(***************************************************************************)
EXTENDS Naturals

CONSTANTS
    Timers,     \* identities of AfterFunc timers: a model bound on those outstanding
    MaxPause    \* longest pause, in ticks

ASSUME PauseAssumption == MaxPause \in Nat \ {0}

VARIABLES
    paused,     \* p.paused # 0
    end,        \* ticks left until p.endTime
    timers,     \* each timer: how far it has come and the ticks left
    command     \* the Pause call in progress: its stage and duration

pauseVars == <<paused, end, timers, command>>

Running(d) == [stage |-> "running", left |-> d]
Due(t)     == timers[t] = Running(0)

NoCommand == [stage |-> "none", duration |-> 0]

Unused    == [stage |-> "unused", left |-> 0]

\* What a new process has.
PauseInit ==
    /\ paused = FALSE
    /\ end = 0
    /\ timers = [t \in Timers |-> Unused]
    /\ command = NoCommand

-----------------------------------------------------------------------------
(* Pause(duration); duration 0 clears, and stops no timer.                 *)

PauseFlag(d) ==
    /\ command = NoCommand
    /\ d > 0 => \E t \in Timers : timers[t] = Unused
    /\ paused' = (d > 0)
    /\ command' = [stage |-> "end", duration |-> d]
    /\ UNCHANGED <<end, timers>>

PauseEnd ==
    /\ command.stage = "end"
    /\ end' = command.duration
    /\ command' = IF command.duration = 0 THEN NoCommand
                  ELSE [command EXCEPT !.stage = "timer"]
    /\ UNCHANGED <<paused, timers>>

PauseTimer ==
    /\ command.stage = "timer"
    /\ LET t == CHOOSE u \in Timers : timers[u] = Unused
       IN  timers' = [timers EXCEPT ![t] = Running(command.duration)]
    /\ command' = NoCommand
    /\ UNCHANGED <<paused, end>>

-----------------------------------------------------------------------------
(* The callback of a timer, on a goroutine of its own.                     *)

\* Mutant: the callback clears the end alone.
ExpireFlagForgotten(t) ==
    /\ Due(t)
    /\ timers' = [timers EXCEPT ![t].stage = "flag cleared"]
    /\ UNCHANGED <<paused, end, command>>

ExpireFlag(t) ==
    /\ Due(t)
    /\ paused' = FALSE
    /\ timers' = [timers EXCEPT ![t].stage = "flag cleared"]
    /\ UNCHANGED <<end, command>>

ExpireEnd(t) ==
    /\ timers[t].stage = "flag cleared"
    /\ end' = 0
    /\ timers' = [timers EXCEPT ![t] = Unused]
    /\ UNCHANGED <<paused, command>>

\* A command is over well within a tick.
Tick ==
    /\ command = NoCommand
    /\ \E t \in Timers : timers[t].left > 0
    /\ end' = IF end = 0 THEN 0 ELSE end - 1
    /\ timers' = [t \in Timers |->
                    [timers[t] EXCEPT !.left = IF @ = 0 THEN 0 ELSE @ - 1]]
    /\ UNCHANGED <<paused, command>>

-----------------------------------------------------------------------------
(* Properties.                                                             *)

PauseTypeOK ==
    /\ paused \in BOOLEAN
    /\ end \in 0 .. MaxPause
    /\ timers \in [Timers -> [stage : {"unused", "running", "flag cleared"},
                             left  : 0 .. MaxPause]]
    /\ command \in [stage : {"none", "end", "timer"}, duration : 0 .. MaxPause]

\* Every pause ends.
PauseEnds == paused ~> ~ paused

\* "antispam paused (<remaining>)": the pause the status reports is not
\* ended by anything but a command before the time it reports is over.  The
\* code breaks it: the timer of an earlier pause ends a later one.
PauseRunsItsCourse ==
    [][\A t \in Timers : ExpireFlag(t) /\ command = NoCommand => ~ (paused /\ end > 0)]_pauseVars

\* The status reports a pause that is in force.  The code breaks it: the
\* callback of an old timer zeroes the end of a pause that has just begun.
PauseIsReported ==
    paused /\ command = NoCommand
           /\ (\A t \in Timers : ~ Due(t) /\ timers[t].stage # "flag cleared")
        => end > 0
=============================================================================
