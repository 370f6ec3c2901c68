---------------------------- MODULE CommandTimers ----------------------------
(***************************************************************************)
(* Timers that post a chat command's text periodically: the "!am cmd" and  *)
(* "!am cmd timer" commands (adapters/message/admin/commands.go and        *)
(* commands_timers.go) over the timing wheel, and the start-up loop of     *)
(* adapters/message/message.go.                                            *)
(*                                                                         *)
(* A config.Timers value is an object of its own: the wheel holds a        *)
(* pointer to the object that was current when the timer was registered,   *)
(* together with the text of that moment.  Admin commands run under the    *)
(* configuration lock, one at a time; a command that takes a list handles  *)
(* one word after the other and is modelled word by word.  A started task  *)
(* is a goroutine that runs at some later moment.  What a post depends on  *)
(* besides Enabled (mode and stream status) is left open.                  *)
(***************************************************************************)
EXTENDS TimingWheel

CONSTANTS
    Texts,       \* texts of chat commands
    Objs,        \* identities of config.Timers objects
    None,        \* no timer
    MaxPending   \* model bound on started tasks that have not run yet

\* What the commands hand to a task: the text and the timer object.
ASSUME CommandTimersAssumption ==
    /\ Args = [text : Texts, timer : Objs]
    /\ None \notin Objs
    /\ MaxPending \in Nat
    /\ Intervals # {}

VARIABLES
    commands,    \* cfg.Channels[ch].Commands: name -> its text and timer
    objs,        \* object -> the config.Timers fields
    pending,     \* tasks started by the wheel and not yet run
    posted,      \* the task that posted in the last step, if one did
    quiet        \* per command, ticks since its last task was started

cmdVars == <<commands, objs, pending, posted, quiet>>
vars == <<slots, currentPos, fired, commands, objs, pending, posted, quiet>>

Command  == [text : Texts, timer : Objs \cup {None}]
Timers   == [enabled : BOOLEAN, interval : Intervals]

HasTimer(c) == c \in DOMAIN commands /\ commands[c].timer # None

InWheel == UNION {{slots[p][c].args.timer : c \in DOMAIN slots[p]} : p \in Positions}
Referenced ==
    {commands[c].timer : c \in DOMAIN commands} \cup InWheel
      \cup {task[2].timer : task \in pending}

\* AddTimer.AddTimer: the task gets the text and the object of this moment.
Register(s, c, text, o, interval) ==
    AddTo(s, c, interval, [text |-> text, timer |-> o])

\* A step of the configuration only.
AdminOnly ==
    /\ posted' = {}
    /\ fired' = {}
    /\ UNCHANGED <<currentPos, pending, quiet>>

Init ==
    /\ WheelInit
    /\ commands = <<>>
    /\ objs = [o \in Objs |-> [enabled |-> FALSE, interval |-> CHOOSE i \in Intervals : TRUE]]
    /\ pending = {}
    /\ posted = {}
    /\ quiet = [c \in Ids |-> MaxElapsed]

-----------------------------------------------------------------------------

\* "!am cmd add": replaces the whole entry, and with it the timer pointer;
\* the wheel is not touched.
AddCommand(c, text) ==
    /\ commands' = Override(commands,
                      [x \in {c} |-> [text |-> text, timer |-> None]])
    /\ UNCHANGED <<slots, objs>>
    /\ AdminOnly

\* "!am cmd set"
SetCommand(c, text) ==
    /\ c \in DOMAIN commands
    /\ commands' = [commands EXCEPT ![c].text = text]
    /\ UNCHANGED <<slots, objs>>
    /\ AdminOnly

\* "!am cmd del"
DelCommand(c) ==
    /\ c \in DOMAIN commands
    /\ commands' = Without(commands, {c})
    /\ UNCHANGED <<slots, objs>>
    /\ AdminOnly

\* "!am cmd timer add": a fresh object, registered without removing what the
\* wheel may hold for the command.
AddCommandTimer(c, interval, o) ==
    /\ c \in DOMAIN commands
    /\ o \notin Referenced
    /\ objs' = [objs EXCEPT ![o] = [enabled |-> TRUE, interval |-> interval]]
    /\ commands' = [commands EXCEPT ![c].timer = o]
    /\ slots' = Register(slots, c, commands[c].text, o, interval)
    /\ AdminOnly

\* "!am cmd timer del"
DelCommandTimer(c) ==
    /\ c \in DOMAIN commands
    /\ slots' = RemoveFrom(slots, c)
    /\ commands' = [commands EXCEPT ![c].timer = None]
    /\ UNCHANGED objs
    /\ AdminOnly

\* "!am cmd timer on"
TimerOn(c) ==
    /\ HasTimer(c)
    /\ LET o == commands[c].timer
       IN  /\ objs' = [objs EXCEPT ![o].enabled = TRUE]
           /\ slots' = Register(slots, c, commands[c].text, o, objs[o].interval)
    /\ UNCHANGED commands
    /\ AdminOnly

\* "!am cmd timer off"
TimerOff(c) ==
    /\ HasTimer(c)
    /\ slots' = RemoveFrom(slots, c)
    /\ objs' = [objs EXCEPT ![commands[c].timer].enabled = FALSE]
    /\ UNCHANGED commands
    /\ AdminOnly

\* "!am cmd timer set": the interval may be left as it is.
SetCommandTimer(c, interval) ==
    /\ HasTimer(c)
    /\ LET o == commands[c].timer
       IN  /\ objs' = [objs EXCEPT ![o].interval = interval]
           /\ slots' = Register(RemoveFrom(slots, c), c, commands[c].text, o, interval)
    /\ UNCHANGED commands
    /\ AdminOnly

\* A new process reads the configuration back and registers every command
\* that has a timer, enabled or not; started tasks are gone.
StartUp ==
    /\ currentPos' = 0
    /\ slots' = [p \in Positions |->
                   [c \in {d \in DOMAIN commands :
                             HasTimer(d) /\ objs[commands[d].timer].interval % SlotsCount = p} |->
                      NewTimer(objs[commands[c].timer].interval,
                               [text |-> commands[c].text,
                                timer |-> commands[c].timer])]]
    /\ pending' = {}
    /\ fired' = {}
    /\ posted' = {}
    /\ quiet' = [c \in Ids |-> MaxElapsed]
    /\ UNCHANGED <<commands, objs>>

\* "timer add" for an unknown command, and "timer on/off" for a command
\* without a timer, dereference nil and end the process before anything is
\* saved.
Panic(c) ==
    /\ ~ HasTimer(c)
    /\ StartUp

Restart == StartUp

\* The wheel's loop starts the tasks that are due.
WheelTick ==
    /\ Tick
    /\ Cardinality(pending) + Cardinality(Due) <= MaxPending
    /\ pending' = pending \cup fired'
    /\ quiet' = [c \in Ids |->
                   IF c \in Due THEN 1
                   ELSE IF quiet[c] < MaxElapsed THEN quiet[c] + 1 ELSE quiet[c]]
    /\ posted' = {}
    /\ UNCHANGED <<commands, objs>>

\* The task itself: nothing if its object is disabled by now; otherwise it
\* posts, unless the timer's mode and the stream's status do not agree.
RunTask(task) ==
    /\ task \in pending
    /\ pending' = pending \ {task}
    /\ \/ posted' = {}
       \/ objs[task[2].timer].enabled /\ posted' = {task}
    /\ fired' = {}
    /\ UNCHANGED <<slots, currentPos, commands, objs, quiet>>

Next ==
    \/ \E c \in Ids :
          \/ \E text \in Texts : AddCommand(c, text) \/ SetCommand(c, text)
          \/ \E interval \in Intervals, o \in Objs : AddCommandTimer(c, interval, o)
          \/ \E interval \in Intervals : SetCommandTimer(c, interval)
          \/ DelCommand(c)
          \/ DelCommandTimer(c)
          \/ TimerOn(c)
          \/ TimerOff(c)
          \/ Panic(c)
    \/ Restart
    \/ WheelTick
    \/ \E task \in pending : RunTask(task)

Spec == Init /\ [][Next]_vars

-----------------------------------------------------------------------------
(* Properties.                                                             *)

TypeOK ==
    /\ WheelTypeOK
    /\ DOMAIN commands \subseteq Ids
    /\ \A c \in DOMAIN commands : commands[c] \in Command
    /\ objs \in [Objs -> Timers]
    /\ pending \subseteq Ids \X Args
    /\ posted \subseteq Ids \X Args

\* Once a command's timer is switched off, everything the wheel still holds
\* for the command is that disabled timer: no older copy, left by a second
\* "timer add" or by replacing the command, can go on posting.
OffIsQuiet ==
    /\ TypeOK
    /\ \A c \in Ids :
         HasTimer(c) /\ ~ objs[commands[c].timer].enabled =>
            \A p \in Positions : InSlot(c, p) =>
                slots[p][c].args.timer = commands[c].timer

\* A command whose timer is on has something in the wheel, through every
\* sequence of commands, restarts and crashes of an admin command.
OnIsScheduled ==
    \A c \in Ids :
        HasTimer(c) /\ objs[commands[c].timer].enabled => c \in Present

\* The interval of "!am cmd timer <count> <interval in seconds> <command>"
\* is the time between two tasks of the command.  The code breaks it:
\* "timer add" and "timer on" register a further copy next to the one the
\* wheel holds.
PostsAreSpaced ==
    [][\A c \in Ids : HasTimer(c) /\ (\E task \in fired' : task[1] = c) =>
          quiet[c] >= objs[commands[c].timer].interval]_vars
=============================================================================
