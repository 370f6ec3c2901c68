-------------------------------- MODULE Nuke --------------------------------
(***************************************************************************)
(* The mass ban ("nuke"): the template that is current for a while and is  *)
(* applied to every new message (domain/template/nuke.go), and the         *)
(* goroutine a start spawns to apply it to the messages already stored     *)
(* (adapters/message/admin/nuke.go).                                       *)
(*                                                                         *)
(* Start, Cancel and the timer's callback hold n.mu; Restart and Check     *)
(* read n.oldNuke and n.nuke without it.  Admin commands run one at a time *)
(* under the configuration lock.  A timer that has expired while the lock  *)
(* was taken is "firing": stopping it comes too late.  Every stored        *)
(* message is recent enough for the scrollback and has its own author.     *)
(***************************************************************************)
EXTENDS Naturals, FiniteSets

CONSTANTS
    Runs,      \* one identity per call of Start
    Defs,      \* what may be asked for: words and punishment
    Msgs,      \* stored messages
    Hits,      \* definition -> the messages its words match
    Nil

ASSUME NukeAssumption ==
    /\ Defs # {}
    /\ Hits \in [Defs -> SUBSET Msgs]
    /\ Nil \notin Runs \cup Msgs

VARIABLES
    nuke, oldNuke, timer,  \* the fields of NukeTemplate
    def,         \* what each run was started with
    timers,      \* run -> state of the timer its Start made
    cancelled,   \* runs whose context has been cancelled
    reCommand,   \* "nuke re" has seen an old nuke and is about to use it
    ignored,     \* messages with IgnoreNuke set
    scan,        \* run -> its scrollback: stage, messages to visit, ...
    tasks,       \* <<run, message>> submitted to the API pool
    crashed,     \* a nil nuke was dereferenced
    acted,       \* <<run, message, current>> punished, and whether the run was current
    faded,       \* runs a timer other than their own has ended
    stopped      \* runs started before the last "nuke stop"

nukeVars == <<nuke, oldNuke, timer, def, timers, cancelled, reCommand, ignored,
          scan, tasks, crashed, acted, faded, stopped>>

fields  == <<nuke, oldNuke, timer>>
starts  == <<def, timers, cancelled>>
effects == <<tasks, acted>>
history == <<faded, stopped>>

Scan == [stage : {"none", "begin", "loop", "apply", "cut off", "complete"},
         todo  : SUBSET Msgs,          \* messages of the copy not yet visited
         fresh : SUBSET Msgs,          \* those without IgnoreNuke in the copy
         at    : Msgs \cup {Nil}]     \* the message being checked

NoScan == [stage |-> "none", todo |-> {}, fresh |-> {}, at |-> Nil]

NukeInit ==
    /\ nuke = Nil /\ oldNuke = Nil /\ timer = Nil
    /\ def = [r \in Runs |-> CHOOSE d \in Defs : TRUE]
    /\ timers = [r \in Runs |-> "none"]
    /\ cancelled = {}
    /\ reCommand = FALSE
    /\ ignored = {}
    /\ scan = [r \in Runs |-> NoScan]
    /\ tasks = {}
    /\ crashed = FALSE
    /\ acted = {}
    /\ faded = {}
    /\ stopped = {}

Started(r) == timers[r] # "none"

\* timer.Stop(): no use once the callback is waiting for the lock.
Stopped(ts) ==
    [r \in Runs |-> IF r = timer /\ ts[r] = "running" THEN "stopped" ELSE ts[r]]

CancelledByStart == cancelled \cup ({nuke} \ {Nil})

StartRun(r, d) ==
    /\ ~ Started(r)
    /\ nuke' = r
    /\ timer' = r
    /\ def' = [def EXCEPT ![r] = d]
    /\ timers' = [Stopped(timers) EXCEPT ![r] = "running"]
    /\ cancelled' = CancelledByStart
    /\ scan' = [scan EXCEPT ![r].stage = "begin"]
    /\ UNCHANGED <<oldNuke, ignored, crashed, history, effects>>

-----------------------------------------------------------------------------
(* The commands.                                                           *)

\* "!am nuke <words>"
Start(r, d) == ~ crashed /\ ~ reCommand /\ StartRun(r, d) /\ UNCHANGED reCommand

\* "!am nuke re": the nil check and the use of oldNuke take no lock.
ReCheck ==
    /\ ~ crashed /\ ~ reCommand
    /\ oldNuke # Nil
    /\ reCommand' = TRUE
    /\ UNCHANGED <<fields, starts, ignored, scan, crashed, history, effects>>

RestartNuke(r) ==
    /\ ~ crashed /\ reCommand
    /\ reCommand' = FALSE
    /\ oldNuke # Nil
    /\ StartRun(r, def[oldNuke])

RestartPanics ==
    /\ ~ crashed /\ reCommand
    /\ oldNuke = Nil
    /\ crashed' = TRUE
    /\ UNCHANGED <<fields, starts, reCommand, ignored, scan, history, effects>>

\* "!am nuke stop" does nothing without a current nuke.
Cancel ==
    /\ ~ crashed /\ ~ reCommand
    /\ nuke # Nil
    /\ timers' = Stopped(timers)
    /\ timer' = Nil
    /\ cancelled' = cancelled \cup {nuke}
    /\ oldNuke' = nuke
    /\ nuke' = Nil
    /\ stopped' = {r \in Runs : Started(r)}
    /\ UNCHANGED <<def, reCommand, ignored, scan, crashed, faded, effects>>

CancelNothing ==
    /\ ~ crashed /\ ~ reCommand
    /\ nuke = Nil
    /\ stopped' = {r \in Runs : Started(r)}
    /\ UNCHANGED <<fields, starts, reCommand, ignored, scan, crashed, faded, effects>>

-----------------------------------------------------------------------------
(* The timer.                                                              *)

Expire(r) ==
    /\ ~ crashed
    /\ timers[r] = "running"
    /\ timers' = [timers EXCEPT ![r] = "firing"]
    /\ UNCHANGED <<fields, def, cancelled, reCommand, ignored, scan, crashed, history, effects>>

\* The callback ends whatever nuke is current, and cancels no context.
Callback(r) ==
    /\ ~ crashed
    /\ timers[r] = "firing"
    /\ timers' = [timers EXCEPT ![r] = "done"]
    /\ oldNuke' = nuke
    /\ nuke' = Nil
    /\ timer' = Nil
    /\ faded' = faded \cup ({nuke} \ {r, Nil})
    /\ UNCHANGED <<def, cancelled, reCommand, ignored, scan, crashed, stopped, effects>>

-----------------------------------------------------------------------------
(* The scrollback of a run.                                                *)

At(r, stage) == ~ crashed /\ scan[r].stage = stage

\* GetAllData copies the messages, flags included.
ScanBegin(r) ==
    /\ At(r, "begin")
    /\ scan' = [scan EXCEPT ![r] = [stage |-> "loop", todo |-> Msgs,
                                    fresh |-> Msgs \ ignored, at |-> Nil]]
    /\ UNCHANGED <<fields, starts, reCommand, ignored, crashed, history, effects>>

ScanCutOff(r) ==
    /\ At(r, "loop")
    /\ r \in cancelled
    /\ scan' = [scan EXCEPT ![r].stage = "cut off"]
    /\ UNCHANGED <<fields, starts, reCommand, ignored, crashed, history, effects>>

ScanComplete(r) ==
    /\ At(r, "loop")
    /\ scan[r].todo = {}
    /\ scan' = [scan EXCEPT ![r].stage = "complete"]
    /\ UNCHANGED <<fields, starts, reCommand, ignored, crashed, history, effects>>

\* Mutant: the flag is not set.
MarkedNone(m) == ignored

Marked(m) == ignored \cup {m}

\* A visit sets IgnoreNuke in the store; Check looks at the copied flag and
\* at n.nuke, and goes on to read the fields of n.nuke.
ScanVisit(r, m) ==
    /\ At(r, "loop")
    /\ r \notin cancelled
    /\ m \in scan[r].todo
    /\ ignored' = Marked(m)
    /\ scan' = [scan EXCEPT ![r].todo = @ \ {m},
                            ![r].at = m,
                            ![r].stage = IF nuke # Nil /\ m \in scan[r].fresh
                                         THEN "apply" ELSE "loop"]
    /\ UNCHANGED <<fields, starts, reCommand, crashed, history, effects>>

ScanApply(r) ==
    /\ At(r, "apply")
    /\ nuke # Nil
    /\ tasks' = IF scan[r].at \in Hits[def[nuke]]
                THEN tasks \cup {<<r, scan[r].at>>} ELSE tasks
    /\ scan' = [scan EXCEPT ![r].stage = "loop"]
    /\ UNCHANGED <<fields, starts, reCommand, ignored, crashed, history, acted>>

ScanPanics(r) ==
    /\ At(r, "apply")
    /\ nuke = Nil
    /\ crashed' = TRUE
    /\ UNCHANGED <<fields, starts, reCommand, ignored, scan, history, effects>>

\* Mutant: a task does not look at its context.
RunTaskAnyway(r, m) ==
    /\ ~ crashed
    /\ <<r, m>> \in tasks
    /\ tasks' = tasks \ {<<r, m>>}
    /\ acted' = acted \cup {<<r, m, r = nuke>>}
    /\ UNCHANGED <<fields, starts, reCommand, ignored, scan, crashed, history>>

\* The pool runs a task, which looks at its run's context once more.
RunTask(r, m) ==
    /\ ~ crashed
    /\ <<r, m>> \in tasks
    /\ tasks' = tasks \ {<<r, m>>}
    /\ acted' = IF r \in cancelled THEN acted
                ELSE acted \cup {<<r, m, r = nuke>>}
    /\ UNCHANGED <<fields, starts, reCommand, ignored, scan, crashed, history>>

NukeNext ==
    \/ \E r \in Runs, d \in Defs : Start(r, d)
    \/ ReCheck \/ RestartPanics \/ Cancel \/ CancelNothing
    \/ \E r \in Runs :
          \/ RestartNuke(r)
          \/ Expire(r) \/ Callback(r)
          \/ ScanBegin(r) \/ ScanCutOff(r) \/ ScanComplete(r)
          \/ \E m \in Msgs : ScanVisit(r, m) \/ RunTask(r, m)
          \/ ScanApply(r) \/ ScanPanics(r)

NukeSpec == NukeInit /\ [][NukeNext]_nukeVars

-----------------------------------------------------------------------------
(* Properties.                                                             *)

NukeTypeOK ==
    /\ {nuke, oldNuke, timer} \subseteq Runs \cup {Nil}
    /\ def \in [Runs -> Defs]
    /\ timers \in [Runs -> {"none", "running", "stopped", "firing", "done"}]
    /\ cancelled \subseteq Runs
    /\ reCommand \in BOOLEAN /\ crashed \in BOOLEAN
    /\ ignored \subseteq Msgs
    /\ scan \in [Runs -> Scan]
    /\ tasks \subseteq Runs \X Msgs
    /\ acted \subseteq Runs \X Msgs \X BOOLEAN
    /\ faded \subseteq Runs /\ stopped \subseteq Runs

\* The scrollbacks of the runs that commands start, replace and stop never
\* punish a message twice: what a run punishes while it is current no later
\* run punishes while it is current.
PunishedOnce ==
    /\ NukeTypeOK
    /\ \A m \in Msgs : Cardinality({r \in Runs : <<r, m, TRUE>> \in acted}) <= 1

\* A scrollback that a command has ended - with "stop" or by starting the
\* next nuke - punishes nobody from then on, by its own words or, as they
\* are read from the current nuke, by those of the next.
CommandsEndScrollback ==
    [][\A r \in Runs, m \in Msgs :
          <<r, m, FALSE>> \in acted' \ acted => timers[r] = "done" \/ r \in faded]_nukeVars

\* "!am nuke <punishment> <duration> <scrollback> <words>": a message is
\* punished by the scrollback of a nuke for that nuke's words.  The code
\* breaks it: expiry leaves the context alone, and what goes on scanning
\* compares with the words of whatever nuke is current by then.
PunishedForOwnWords ==
    \A r \in Runs, m \in Msgs, c \in BOOLEAN :
        <<r, m, c>> \in acted => m \in Hits[def[r]]

\* "!am nuke ... <duration>": a nuke ends with its own timer or by command.
\* The code breaks it: a callback that was waiting for the lock while the
\* next nuke was started ends that one.
LastsItsDuration == faded = {}

\* "!am nuke stop": no scrollback that was going on starts a punishment
\* after it.  The code breaks it: an expired nuke is not current, so stop
\* does not cancel its context.
StopStops ==
    [][\A r \in Runs, m \in Msgs :
          <<r, m, FALSE>> \in acted' \ acted => r \notin stopped]_nukeVars

\* "!am nuke ... <scrollback> <words>": a scrollback that ran to its end in
\* a nuke's time has found every message its words match, unless one has
\* been punished before.  The code breaks it: IgnoreNuke is set on each
\* visited message, matched or not.
ScrollbackFindsAll ==
    \A r \in Runs :
        scan[r].stage = "complete" /\ nuke = r =>
            \A m \in Hits[def[r]] :
                \E q \in Runs : <<q, m>> \in tasks
                    \/ \E c \in BOOLEAN : <<q, m, c>> \in acted
=============================================================================
