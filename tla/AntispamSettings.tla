-------------------------- MODULE AntispamSettings --------------------------
(***************************************************************************)
(* The settings commands of one channel's antispam                         *)
(* (adapters/message/admin/antispam.go), with what they act on: the        *)
(* configuration and its files (ConfigManager), the pause (SpamPause) and  *)
(* the capacity of the store of messages (infrastructure/storage/store.go).*)
(* A command runs inside Manager.Update: it holds the lock from its first  *)
(* effect to the end of the save, and is validated and saved also when it  *)
(* changes nothing.                                                        *)
(*                                                                         *)
(* The numbers are those of the code, the similarity counted in tenths.    *)
(* The mode and what is switched on are left out (SpamFlood has them); of  *)
(* a list of punishments is kept its length, of the punishment for long    *)
(* words, or for many emotes, whether there is one: a file that never had  *)
(* a maximum may have none.                                                *)
(***************************************************************************)
EXTENDS ConfigManager, SpamPause, Integers, FiniteSetsExt

CONSTANTS
    Home,      \* the channel
    NaN,       \* a similarity that is not a number
    Inputs     \* what commands set: group, field and value

VARIABLES
    capacity,  \* the store's capacity
    tuned      \* a limit has been set since the process started

vars == <<configVars, pauseVars, capacity, tuned>>

Groups == {"default", "vip", "emote"}

\* In seconds.
Day     == 86400
Numbers == 0 .. Day

\* SpamSettings and SpamSettingsEmote.  Emotes have no gap, which is 1 here, and
\* for their similarity stands emote_threshold, which no command sets.
Group == [limit : Numbers, gap : Numbers, similarity : Numbers \cup {NaN}, reset : Numbers,
          punishments : Numbers, length : Numbers, lengthPunishment : BOOLEAN]
Spam  == [default : Group, vip : Group, emote : Group]

ASSUME AntispamAssumption ==
    /\ Home \in Channels
    /\ Settings = Spam
    /\ \A input \in Inputs : input.group \in Groups

-----------------------------------------------------------------------------
(* What the handlers let through, and what validate does.                  *)

\* Mutant: the lower bound is another.
LimitsFromOne == 1 .. 15

\* MsgAntispam
Limits == 2 .. 15

\* ParseFloatArg refuses what is less than the lower or more than the upper
\* bound, and not a number is neither.
Parsed(g, field, value) ==
    \/ field = "limit"       /\ value \in Limits
    \/ field = "gap"         /\ value \in 0 .. 15 /\ g # "emote"
    \/ field = "similarity"  /\ value \in (1 .. 10) \cup {NaN} /\ g # "emote"
    \/ field = "reset"       /\ value \in 1 .. Day
    \/ field = "punishments" /\ value \in 1 .. 15
    \/ field = "length"      /\ value \in 0 .. IF g = "emote" THEN 50 ELSE 500
    \/ field = "lengthPunishment" /\ value = TRUE

\* The handlers' setters.
Changed(s, field, value) ==
    CASE field = "limit"            -> [s EXCEPT !.limit = value]
      [] field = "gap"              -> [s EXCEPT !.gap = value]
      [] field = "similarity"       -> [s EXCEPT !.similarity = value]
      [] field = "reset"            -> [s EXCEPT !.reset = value]
      [] field = "punishments"      -> [s EXCEPT !.punishments = value]
      [] field = "length"           -> [s EXCEPT !.length = value]
      [] field = "lengthPunishment" -> [s EXCEPT !.lengthPunishment = value]

ValidGroup(s) ==
    /\ s.limit \in 2 .. 15
    /\ s.gap \in 0 .. 15
    /\ s.similarity \in (1 .. 10) \cup {NaN}
    /\ s.reset \in 0 .. Day
    /\ s.punishments > 0
    /\ s.length \in 0 .. 500
    /\ s.length # 0 => s.lengthPunishment

ValidSpam(spam) == \A g \in Groups : ValidGroup(spam[g])

\* JSON has no such number.
EncodableSpam(spam) == \A g \in Groups : spam[g].similarity # NaN

\* GetChannel
DefaultWords  == [limit |-> 3, gap |-> 3, similarity |-> 7, reset |-> 3600,
                  punishments |-> 3, length |-> 100, lengthPunishment |-> TRUE]
DefaultEmotes == [limit |-> 7, gap |-> 1, similarity |-> 9, reset |-> 600,
                  punishments |-> 3, length |-> 15, lengthPunishment |-> TRUE]
DefaultSpam   == [default |-> DefaultWords, vip |-> DefaultWords, emote |-> DefaultEmotes]

\* A file written before there was a maximal number of emotes.
OldSpam ==
    [DefaultSpam EXCEPT !.emote.length = 0, !.emote.lengthPunishment = FALSE]

-----------------------------------------------------------------------------
(* The store.                                                              *)

InitialCapacity == 50

\* As many messages as a group's limits look back on.  The conversion of not a
\* number gives no positive one.
Reach(s) ==
    IF s.similarity = NaN THEN 0 ELSE (10 * s.limit * s.gap) \div s.similarity

\* Mutant: only the default settings are looked at.
CalculateCapacityOfDefault(spam) == Reach(spam.default)

\* Not a number makes the maximum one.
CalculateCapacity(spam) ==
    IF EncodableSpam(spam) THEN Max({Reach(spam[g]) : g \in Groups}) ELSE 0

\* applyParsedValue, after the value is set.
SetCapacity(spam) ==
    /\ capacity' = IF CalculateCapacity(spam) > InitialCapacity
                   THEN CalculateCapacity(spam) ELSE capacity
    /\ tuned' = TRUE

-----------------------------------------------------------------------------
(* The commands.  They find the lock free.                                 *)

Unlocked == up /\ stage = "idle" /\ command = NoCommand

storeVars == <<capacity, tuned>>

SetValue(g, field, value) ==
    /\ Unlocked
    /\ Parsed(g, field, value)
    /\ LET spam == [mem[Home] EXCEPT ![g] = Changed(@, field, value)]
       IN  /\ Update(Home, spam)
           /\ IF field \in {"limit", "gap", "similarity"}
              THEN SetCapacity(spam) ELSE UNCHANGED storeVars
    /\ UNCHANGED pauseVars

\* "*": the punishments of the default settings.
InheritPunishments(g) ==
    /\ Unlocked
    /\ g # "default"
    /\ Update(Home, [mem[Home] EXCEPT ![g].punishments = mem[Home].default.punishments])
    /\ UNCHANGED <<pauseVars, storeVars>>

\* "!am reset"
Reset ==
    /\ Unlocked
    /\ Update(Home, DefaultSpam)
    /\ UNCHANGED <<pauseVars, storeVars>>

\* A command that changes nothing here, or is refused.
OtherCommand ==
    /\ Unlocked
    /\ Update(Home, mem[Home])
    /\ UNCHANGED <<pauseVars, storeVars>>

\* callback.go: the channel's owner has authorised the bot.
SetToken(token) ==
    /\ Unlocked
    /\ Update(Main, token)
    /\ UNCHANGED <<pauseVars, storeVars>>

\* By any call of the API, also while a command holds the lock.
TokenStep(token) ==
    /\ RefreshToken(token)
    /\ UNCHANGED <<pauseVars, storeVars>>

\* "!am as <seconds>" and, with 0, the commands that switch the bot or a group
\* of settings on or off: the pause is set in steps, then the save begins.
BeginPause(d) ==
    /\ Unlocked
    /\ PauseFlag(d)
    /\ UNCHANGED <<configVars, storeVars>>

EndPause ==
    /\ PauseEnd
    /\ IF command.duration = 0 THEN Update(Home, mem[Home]) ELSE UNCHANGED configVars
    /\ UNCHANGED storeVars

TimePause ==
    /\ PauseTimer
    /\ Update(Home, mem[Home])
    /\ UNCHANGED storeVars

-----------------------------------------------------------------------------

SaveStep ==
    /\ (\E f \in Files : Write(f)) \/ Rename \/ Fail
    /\ UNCHANGED <<pauseVars, storeVars>>

PauseStep(t) ==
    /\ ExpireFlag(t) \/ ExpireEnd(t)
    /\ UNCHANGED <<configVars, storeVars>>

PauseTick ==
    /\ Tick
    /\ UNCHANGED <<configVars, storeVars>>

Die ==
    /\ Crash
    /\ paused' = FALSE
    /\ end' = 0
    /\ timers' = [t \in Timers |-> Unused]
    /\ command' = NoCommand
    /\ UNCHANGED storeVars

\* A start makes a new store, whatever the limits it has read.
Restart ==
    /\ Start
    /\ capacity' = InitialCapacity
    /\ tuned' = FALSE
    /\ UNCHANGED pauseVars

Init ==
    /\ \E token \in Tokens :
          disk = [f \in Files |-> IF f = Main THEN token ELSE OldSpam]
    /\ ConfigInit
    /\ PauseInit
    /\ capacity = InitialCapacity
    /\ tuned = FALSE

Next ==
    \/ \E input \in Inputs : SetValue(input.group, input.field, input.value)
    \/ \E g \in Groups : InheritPunishments(g)
    \/ Reset
    \/ OtherCommand
    \/ \E token \in Tokens : SetToken(token)
    \/ \E token \in Tokens : TokenStep(token)
    \/ \E d \in 0 .. MaxPause : BeginPause(d)
    \/ EndPause
    \/ TimePause
    \/ SaveStep
    \/ \E t \in Timers : PauseStep(t)
    \/ PauseTick
    \/ Die
    \/ Restart

\* Time passes, expired timers get their goroutine, a command runs on.
Fairness ==
    /\ WF_vars(PauseTick)
    /\ WF_vars(EndPause)
    /\ WF_vars(TimePause)
    /\ \A t \in Timers : WF_vars(PauseStep(t))

Spec == Init /\ [][Next]_vars /\ Fairness

-----------------------------------------------------------------------------
(* Properties.  DiskLoads, SuccessIsOnDisk and AllOrNothing of             *)
(* ConfigManager and PauseEnds of SpamPause are checked here too.          *)

TypeOK ==
    /\ ConfigTypeOK
    /\ PauseTypeOK
    /\ capacity \in Nat /\ capacity >= InitialCapacity
    /\ tuned \in BOOLEAN
    /\ command # NoCommand => up /\ stage = "idle"

\* The handlers check their arguments, and validate checks the result: whatever
\* commands have been given, one is only refused for a maximal length without a
\* punishment.  A range that differs would leave a value in memory that makes
\* every later command of every channel fail.
HandlersKeepValid ==
    up /\ stage = "idle" /\ answer = "refused" =>
        \E g \in Groups : mem[Home][g].length # 0 /\ ~ mem[Home][g].lengthPunishment

\* The store holds as many messages of a user as the limits in force look back
\* on, once one of them has been set, in whatever order they were.
StoreCoversLimits ==
    tuned /\ EncodableSpam(mem[Home]) => \A g \in Groups : Reach(mem[Home][g]) <= capacity

\* The same from the start.  The code breaks it: a restart reads large limits
\* and makes a store of 50 messages.
StoreCoversFromTheStart ==
    up /\ EncodableSpam(mem[Home]) => \A g \in Groups : Reach(mem[Home][g]) <= capacity
=============================================================================
