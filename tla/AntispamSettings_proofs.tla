---------------------- MODULE AntispamSettings_proofs ----------------------
(***************************************************************************)
(* Theorems about ConfigManager, for any number of channels and whatever   *)
(* settings they have; and about AntispamSettings, whose commands, with    *)
(* the pauses and the store they act on, are updates of the configuration  *)
(* manager, so that what is proved of the manager holds of them.           *)
(***************************************************************************)
EXTENDS AntispamSettings, TLAPS

(***************************************************************************)
(* The configuration manager.                                              *)
(***************************************************************************)


Shape ==
    /\ mem \in [Files -> Settings \cup Tokens]
    /\ disk \in [Files -> Settings \cup Tokens]
    /\ before \in [Files -> Settings \cup Tokens]
    /\ \A f \in Channels : mem[f] \in Settings /\ disk[f] \in Settings
    /\ todo \subseteq Channels
    /\ stage \in {"idle", "write", "rename"}
    /\ stage = "rename" => file \in Files
    /\ ~ up => stage = "idle"
    /\ dirty \in BOOLEAN /\ refreshed \in BOOLEAN

\* What the disk and memory are to each other in the course of a save: it
\* only ever saves what has been validated, channels no longer to do are
\* saved, and the main file comes last.  The temporary file differs from memory
\* only by a token refreshed since.
Progress ==
    /\ Loads(disk)
    /\ stage # "idle" => Loads(mem)
    /\ stage # "idle" => \A f \in Channels \ todo : disk[f] = mem[f]
    /\ stage = "rename" /\ file = Main => todo = {}
    /\ stage = "rename" => Valid(file, data) /\ (data = mem[file] \/ (file = Main /\ refreshed))
    /\ SuccessIsOnDisk

\* The update under way has changed one file of what was on the disk, and what
\* it writes is what memory holds.
OneChange ==
    ~ dirty =>
        /\ \E g \in Files : \A f \in Files : f # g => mem[f] = before[f]
        /\ stage = "rename" => data = mem[file]

SaveInv == Shape /\ Progress /\ OneChange /\ AllOrNothing

\* A start reads files that load, with no save under way.
LEMMA InitSave == ConfigInit => SaveInv
<1> SUFFICES ASSUME ConfigInit PROVE SaveInv
  OBVIOUS
<1>1. \A f \in Channels : disk[f] \in Settings
  BY ConfigAssumption DEF ConfigInit, Loads, Valid, Content, Files
<1>2. QED
  BY <1>1
     DEF ConfigInit, SaveInv, Shape, Progress, OneChange, AllOrNothing, SuccessIsOnDisk, Files

\* An update that validates starts a save; a refused one leaves the files alone.
LEMMA UpdateSave ==
    ASSUME SaveInv, NEW g \in Files, NEW c \in Content(g), Update(g, c)
    PROVE  SaveInv'
<1>1. /\ mem' = [mem EXCEPT ![g] = c]
      /\ before' = disk /\ disk' = disk
      /\ dirty' = (mem # disk)
      /\ stage = "idle" /\ up /\ up' = up /\ file' = file /\ refreshed' = refreshed
      /\ c \in Settings \cup Tokens
      /\ g \in Channels => c \in Settings
  BY ConfigAssumption DEF Update, Content
<1>2. CASE Loads(mem')
  <2>1. todo' = Channels /\ stage' = "write" /\ answer' = answer
    BY <1>2 DEF Update
  <2>2. Shape'
    <3>1. \A f \in Channels : mem'[f] \in Settings
      BY <1>1 DEF SaveInv, Shape, Files
    <3>2. QED
      BY <1>1, <2>1, <3>1 DEF SaveInv, Shape
  <2>3. Progress'
    BY <1>1, <1>2, <2>1 DEF SaveInv, Progress, Loads, SuccessIsOnDisk
  <2>4. OneChange' /\ AllOrNothing'
    BY <1>1, <2>1 DEF OneChange, AllOrNothing, SaveInv, Shape
  <2>5. QED
    BY <2>2, <2>3, <2>4 DEF SaveInv
<1>3. CASE ~ Loads(mem')
  <2>1. answer' = "refused" /\ stage' = stage /\ todo' = todo
    BY <1>3 DEF Update
  <2>2. Shape'
    <3>1. \A f \in Channels : mem'[f] \in Settings
      BY <1>1 DEF SaveInv, Shape, Files
    <3>2. QED
      BY <1>1, <2>1, <3>1 DEF SaveInv, Shape
  <2>3. Progress'
    BY <1>1, <2>1 DEF SaveInv, Progress, Loads, SuccessIsOnDisk
  <2>4. OneChange' /\ AllOrNothing'
    BY <1>1, <2>1 DEF OneChange, AllOrNothing, SaveInv, Shape
  <2>5. QED
    BY <2>2, <2>3, <2>4 DEF SaveInv
<1>4. QED
  BY <1>2, <1>3

\* A refreshed token is in memory alone.
LEMMA RefreshSave ==
    ASSUME SaveInv, NEW c \in Tokens, RefreshToken(c)
    PROVE  SaveInv'
<1>1. /\ mem' = [mem EXCEPT ![Main] = c]
      /\ dirty' = TRUE /\ refreshed' = TRUE
      /\ UNCHANGED <<disk, todo, stage, file, data, answer, up, before>>
  BY DEF RefreshToken
<1>2. \A f \in Channels : mem'[f] = mem[f]
  BY <1>1, ConfigAssumption DEF SaveInv, Shape, Files
<1>3. Shape'
  BY <1>1, <1>2 DEF SaveInv, Shape
<1>4. \A f \in Files : Valid(f, mem[f]) => Valid(f, mem'[f])
  BY <1>1, <1>2, ConfigAssumption DEF SaveInv, Shape, Valid, Content, Files
<1>5. Loads(disk') /\ (stage' # "idle" => Loads(mem'))
  BY <1>1, <1>4 DEF SaveInv, Progress, Loads
<1>6. SuccessIsOnDisk'
  BY <1>1, <1>2 DEF SaveInv, Progress, SuccessIsOnDisk, Files
<1>7. stage' = "rename" =>
        Valid(file', data') /\ (data' = mem'[file'] \/ (file' = Main /\ refreshed'))
  BY <1>1, <1>2 DEF SaveInv, Shape, Progress, Valid, Files
<1>8. Progress'
  BY <1>1, <1>2, <1>5, <1>6, <1>7 DEF SaveInv, Progress
<1>9. OneChange' /\ AllOrNothing'
  BY <1>1 DEF OneChange, AllOrNothing
<1>10. QED
  BY <1>3, <1>8, <1>9 DEF SaveInv

\* A temporary file is not yet one of the files that a start reads.
LEMMA WriteSave ==
    ASSUME SaveInv, NEW f \in Files, Write(f)
    PROVE  SaveInv'
<1>1. /\ f = Main => todo = {}
      /\ UNCHANGED <<mem, disk, todo, answer, up, before, dirty>>
      /\ stage = "write" /\ stage' = "rename" /\ file' = f
      /\ data' = mem[f] /\ refreshed' \in BOOLEAN
  BY ConfigAssumption DEF Write, NextFiles, SaveInv, Shape, Files
<1>2. Valid(file', data') /\ data' = mem'[file']
  BY <1>1 DEF SaveInv, Progress, Loads, Valid, Content
<1>3. QED
  BY <1>1, <1>2 DEF SaveInv, Shape, Progress, OneChange, AllOrNothing, Loads, SuccessIsOnDisk

\* A rename puts one more file of the update in place, the main file last.
LEMMA RenameSave ==
    ASSUME SaveInv, Rename
    PROVE  SaveInv'
<1>1. /\ up /\ up' = up
      /\ stage = "rename" /\ file \in Files
      /\ disk' = [disk EXCEPT ![file] = data]
      /\ UNCHANGED <<mem, before, dirty, refreshed>>
      /\ todo' = todo \ {file}
      /\ stage' \in {"idle", "write"}
  BY DEF Rename, SaveInv, Shape
<1>2. Valid(file, data) /\ (data = mem[file] \/ (file = Main /\ refreshed))
  BY <1>1 DEF SaveInv, Progress
<1>3. Shape'
  BY <1>1, <1>2, ConfigAssumption DEF SaveInv, Shape, Valid, Content, Files
<1>4. Loads(mem) /\ Loads(disk')
  BY <1>1, <1>2 DEF SaveInv, Shape, Progress, Loads
<1>5. \A f \in Channels \ todo' : disk'[f] = mem'[f]
  BY <1>1, <1>2, ConfigAssumption DEF SaveInv, Shape, Progress, Files
<1>6. Progress'
  <2>1. CASE file = Main
    <3>1. stage' = "idle" /\ todo = {}
      BY <1>1, <2>1 DEF Rename, SaveInv, Progress
    <3>2. disk'[Main] = mem'[Main] \/ refreshed'
      BY <1>1, <1>2, <2>1 DEF SaveInv, Shape
    <3>3. SuccessIsOnDisk'
      BY <1>1, <1>5, <3>1, <3>2 DEF SuccessIsOnDisk, Files
    <3>4. QED
      BY <1>1, <1>4, <3>1, <3>3 DEF Progress
  <2>2. CASE file # Main
    <3>1. stage' = "write"
      BY <2>2 DEF Rename
    <3>2. QED
      BY <1>1, <1>4, <1>5, <3>1 DEF Progress, Loads, SuccessIsOnDisk
  <2>3. QED
    BY <2>1, <2>2
<1>7. OneChange'
  BY <1>1 DEF SaveInv, OneChange
<1>8. ASSUME ~ dirty
      PROVE  disk' \in {before, mem}
  <2>1. data = mem[file]
    BY <1>1, <1>8 DEF SaveInv, OneChange
  <2>2. CASE disk = mem
    BY <1>1, <2>1, <2>2 DEF SaveInv, Shape
  <2>3. CASE disk = before
    <3>1. PICK g \in Files : \A f \in Files : f # g => mem[f] = before[f]
      BY <1>8 DEF SaveInv, OneChange
    <3>2. CASE file = g
      <4>1. \A f \in Files : disk'[f] = mem[f]
        BY <1>1, <2>1, <2>3, <3>1, <3>2 DEF SaveInv, Shape
      <4>2. QED
        BY <1>1, <1>3, <4>1 DEF Shape
    <3>3. CASE file # g
      <4>1. \A f \in Files : disk'[f] = before[f]
        BY <1>1, <2>1, <2>3, <3>1, <3>3 DEF SaveInv, Shape
      <4>2. QED
        BY <1>1, <1>3, <4>1 DEF Shape
    <3>4. QED
      BY <3>2, <3>3
  <2>4. QED
    BY <1>8, <2>2, <2>3 DEF SaveInv, AllOrNothing
<1>9. AllOrNothing'
  BY <1>1, <1>8 DEF AllOrNothing
<1>10. QED
  BY <1>3, <1>6, <1>7, <1>9 DEF SaveInv

\* A failed or interrupted save leaves each file old or new.
LEMMA StopSave ==
    ASSUME SaveInv, Fail \/ Crash
    PROVE  SaveInv'
<1>1. /\ stage' = "idle" /\ todo' = {} /\ UNCHANGED <<mem, disk, before, dirty, refreshed>>
      /\ ~ up' \/ answer' = "failed"
  BY DEF Fail, Crash
<1>2. QED
  BY <1>1 DEF SaveInv, Shape, Progress, OneChange, AllOrNothing, Loads, SuccessIsOnDisk

\* A start takes memory from the files.
LEMMA StartSave ==
    ASSUME SaveInv, Start
    PROVE  SaveInv'
<1>1. /\ mem' = disk /\ before' = disk /\ ~ dirty' /\ dirty' \in BOOLEAN
      /\ ~ up /\ refreshed' \in BOOLEAN
      /\ UNCHANGED <<disk, stage, file, todo, data>>
  BY DEF Start
<1>2. Shape' /\ Progress'
  BY <1>1 DEF SaveInv, Shape, Progress, Loads, SuccessIsOnDisk
<1>3. OneChange' /\ AllOrNothing'
  BY <1>1 DEF SaveInv, Shape, Progress, OneChange, AllOrNothing, Files
<1>4. QED
  BY <1>2, <1>3 DEF SaveInv

\* Every step of the configuration keeps the invariant.
LEMMA NextSave == SaveInv /\ [ConfigNext]_configVars => SaveInv'
<1> SUFFICES ASSUME SaveInv, [ConfigNext]_configVars
             PROVE  SaveInv'
  OBVIOUS
<1>1. ASSUME NEW f \in Files, NEW c \in Content(f), Update(f, c)
      PROVE  SaveInv'
  BY <1>1, UpdateSave
<1>2. ASSUME NEW f \in Files, Write(f)
      PROVE  SaveInv'
  BY <1>2, WriteSave
<1>3. ASSUME NEW c \in Tokens, RefreshToken(c)
      PROVE  SaveInv'
  BY <1>3, RefreshSave
<1>4. CASE Rename
  BY <1>4, RenameSave
<1>5. CASE Fail \/ Crash
  BY <1>5, StopSave
<1>6. CASE Start
  BY <1>6, StartSave
<1>7. CASE UNCHANGED configVars
  BY <1>7
     DEF configVars, SaveInv, Shape, Progress, OneChange, AllOrNothing, SuccessIsOnDisk,
         Loads, Valid, Content
<1>8. QED
  BY <1>1, <1>2, <1>4, <1>5, <1>6, <1>7, <1>3 DEF ConfigNext

\* The relation of memory and disk through updates, saves, failures, crashes
\* and restarts.
THEOREM SaveInvariant == ConfigSpec => []SaveInv
<1>1. QED
  BY InitSave, NextSave, PTL DEF ConfigSpec

\* Wherever the process dies, it finds files it accepts.
THEOREM DiskAlwaysLoads == ConfigSpec => []DiskLoads
<1>1. SaveInv => DiskLoads
  BY DEF SaveInv, Progress, DiskLoads
<1>2. QED
  BY <1>1, SaveInvariant, PTL

\* An update that was reported as done is on the disk.
THEOREM SuccessAlwaysOnDisk == ConfigSpec => []SuccessIsOnDisk
<1>1. SaveInv => SuccessIsOnDisk
  BY DEF SaveInv, Progress, SuccessIsOnDisk
<1>2. QED
  BY <1>1, SaveInvariant, PTL

\* A save that fails or dies half-way leaves the old state or the new one.
THEOREM AlwaysAllOrNothing == ConfigSpec => []AllOrNothing
<1>1. SaveInv => AllOrNothing
  BY DEF SaveInv
<1>2. QED
  BY <1>1, SaveInvariant, PTL

(***************************************************************************)
(* The commands are updates of the manager.                                *)
(***************************************************************************)

\* The settings in memory are settings.
HomeInv == mem[Home] \in Spam

\* The channel with an antispam keeps settings in memory, as all channels do.
LEMMA HomeHasSpam == SaveInv => HomeInv
  BY AntispamAssumption DEF SaveInv, Shape, HomeInv

\* A command updates the channel's file.
LEMMA HomeUpdate ==
    ASSUME NEW spam \in Spam, Update(Home, spam)
    PROVE  ConfigNext
<1>1. Home \in Files /\ spam \in Content(Home)
  BY AntispamAssumption, ConfigAssumption DEF Files, Content
<1>2. QED
  BY <1>1 DEF ConfigNext

\* A day is longer than the default reset times.
LEMMA DayIsLong == Day \in Nat /\ Day > 3600
  BY DEF Day

\* A value that a handler lets through is one a setting can have.
LEMMA ParsedIsSetting ==
    ASSUME NEW spam \in Spam, NEW g \in Groups, NEW field, NEW value,
           Parsed(g, field, value)
    PROVE  [spam EXCEPT ![g] = Changed(@, field, value)] \in Spam
<1>1. spam[g] \in Group
  BY DEF Spam, Groups
<1>2. ASSUME NEW s \in Group
      PROVE  Changed(s, field, value) \in Group
  <2>1. ASSUME NEW n \in Numbers
        PROVE  /\ [s EXCEPT !.limit = n] \in Group
               /\ [s EXCEPT !.gap = n] \in Group
               /\ [s EXCEPT !.reset = n] \in Group
               /\ [s EXCEPT !.punishments = n] \in Group
               /\ [s EXCEPT !.length = n] \in Group
    BY DEF Group
  <2>2. ASSUME NEW n \in Numbers \cup {NaN}
        PROVE  [s EXCEPT !.similarity = n] \in Group
    BY DEF Group
  <2>3. [s EXCEPT !.lengthPunishment = TRUE] \in Group
    BY DEF Group
  <2>4. 0 .. 15 \subseteq Numbers /\ 0 .. 500 \subseteq Numbers
    BY DayIsLong DEF Numbers
  <2>5. CASE field \in {"limit", "gap", "reset", "punishments", "length"} /\ value \in Numbers
    BY <2>1, <2>5 DEF Changed
  <2>6. CASE field = "similarity" /\ value \in Numbers \cup {NaN}
    BY <2>2, <2>6 DEF Changed
  <2>7. CASE field = "lengthPunishment" /\ value = TRUE
    BY <2>3, <2>7 DEF Changed
  <2>8. CASE field = "limit" /\ value \in Limits
    BY <2>4, <2>5, <2>8 DEF Limits
  <2>9. CASE field = "gap" /\ value \in 0 .. 15
    BY <2>4, <2>5, <2>9
  <2>10. CASE field = "similarity" /\ value \in (1 .. 10) \cup {NaN}
    BY <2>4, <2>6, <2>10
  <2>11. CASE field = "reset" /\ value \in 1 .. Day
    BY <2>5, <2>11, DayIsLong DEF Numbers
  <2>12. CASE field = "punishments" /\ value \in 1 .. 15
    BY <2>4, <2>5, <2>12
  <2>13. CASE field = "length" /\ value \in 0 .. IF g = "emote" THEN 50 ELSE 500
    BY <2>4, <2>5, <2>13
  <2>14. QED
    BY <2>7, <2>8, <2>9, <2>10, <2>11, <2>12, <2>13 DEF Parsed
<1>3. [spam EXCEPT ![g] = Changed(spam[g], field, value)] \in Spam
  BY <1>1, <1>2 DEF Spam, Groups
<1>4. QED
  BY <1>3

\* The defaults of GetChannel are settings.
LEMMA DefaultsAreSettings == DefaultSpam \in Spam
  BY DayIsLong DEF DefaultSpam, DefaultWords, DefaultEmotes, Spam, Group, Numbers

\* Whatever the antispam's commands, its pauses and its store do, to the
\* configuration it is a step of the manager, or nothing.
LEMMA StepsAreConfigSteps ==
    ASSUME HomeInv, [Next]_vars
    PROVE  [ConfigNext]_configVars
<1>1. ASSUME NEW input \in Inputs, SetValue(input.group, input.field, input.value)
      PROVE  ConfigNext
  <2>1. input.group \in Groups
    BY AntispamAssumption
  <2>2. [mem[Home] EXCEPT ![input.group] = Changed(@, input.field, input.value)] \in Spam
    BY <1>1, <2>1, ParsedIsSetting DEF SetValue, HomeInv
  <2>3. QED
    BY <1>1, <2>2, HomeUpdate DEF SetValue
<1>2. ASSUME NEW g \in Groups, InheritPunishments(g)
      PROVE  ConfigNext
  <2>1. mem[Home][g] \in Group /\ mem[Home].default.punishments \in Numbers
    BY DEF HomeInv, Spam, Groups, Group
  <2>2. [mem[Home][g] EXCEPT !.punishments = mem[Home].default.punishments] \in Group
    BY <2>1 DEF Group
  <2>3. [mem[Home] EXCEPT ![g].punishments = mem[Home].default.punishments] \in Spam
    BY <2>2 DEF HomeInv, Spam, Groups
  <2>4. QED
    BY <1>2, <2>3, HomeUpdate DEF InheritPunishments
<1>3. CASE Reset
  BY <1>3, DefaultsAreSettings, HomeUpdate DEF Reset
<1>4. CASE OtherCommand \/ TimePause
  BY <1>4, HomeUpdate DEF OtherCommand, TimePause, HomeInv
<1>5. ASSUME NEW token \in Tokens, SetToken(token)
      PROVE  ConfigNext
  BY <1>5 DEF SetToken, ConfigNext, Files, Content
<1>6. ASSUME NEW token \in Tokens, TokenStep(token)
      PROVE  ConfigNext
  BY <1>6 DEF TokenStep, ConfigNext
<1>7. ASSUME NEW d \in 0 .. MaxPause, BeginPause(d)
      PROVE  UNCHANGED configVars
  BY <1>7 DEF BeginPause
<1>8. CASE EndPause
  BY <1>8, HomeUpdate DEF EndPause, HomeInv
<1>9. CASE SaveStep
  BY <1>9 DEF SaveStep, ConfigNext
<1>10. ASSUME NEW t \in Timers, PauseStep(t)
      PROVE  UNCHANGED configVars
  BY <1>10 DEF PauseStep
<1>11. CASE PauseTick
  BY <1>11 DEF PauseTick
<1>12. CASE Die \/ Restart
  BY <1>12 DEF Die, Restart, ConfigNext
<1>13. CASE UNCHANGED vars
  BY <1>13 DEF vars
<1>14. QED
  BY <1>1, <1>2, <1>3, <1>4, <1>5, <1>6, <1>7, <1>8, <1>9, <1>10, <1>11, <1>12,
     <1>13
  DEF Next

\* The inductive invariant of saves, in the composition.
THEOREM SettingsSaveInvariant == Spec => []SaveInv
<1>1. Init => SaveInv
  BY InitSave DEF Init
<1>2. SaveInv /\ [Next]_vars => SaveInv'
  BY NextSave, StepsAreConfigSteps, HomeHasSpam
<1>3. QED
  BY <1>1, <1>2, PTL DEF Spec

\* The composition implements the configuration manager.
THEOREM ImplementsManager == Spec => ConfigSpec
<1>1. Init => ConfigInit
  BY DEF Init
<1>2. SaveInv /\ [Next]_vars => [ConfigNext]_configVars
  BY StepsAreConfigSteps, HomeHasSpam
<1>3. QED
  BY <1>1, <1>2, SettingsSaveInvariant, PTL DEF Spec, ConfigSpec

\* Whatever commands are given and wherever the process dies, in the middle of
\* a pause or of a save, it finds files that load.
THEOREM SettingsAlwaysLoad == Spec => []DiskLoads
  BY ImplementsManager, DiskAlwaysLoads, PTL

\* A command answered with success is on the disk.
THEOREM SettingsSuccessOnDisk == Spec => []SuccessIsOnDisk
  BY ImplementsManager, SuccessAlwaysOnDisk, PTL

\* A command is saved as a whole or not at all.
THEOREM SettingsAllOrNothing == Spec => []AllOrNothing
  BY ImplementsManager, AlwaysAllOrNothing, PTL

-----------------------------------------------------------------------------
(* Types.                                                                  *)

\* The manager's types.
LEMMA ConfigTypesKept ==
    ASSUME SaveInv, ConfigTypeOK, [ConfigNext]_configVars
    PROVE  ConfigTypeOK'
<1> USE DEF ConfigTypeOK
<1>1. ASSUME NEW f \in Files, NEW c \in Content(f), Update(f, c) PROVE ConfigTypeOK'
  <2>1. \A g \in Files : mem'[g] \in Content(g) /\ before'[g] \in Content(g)
    BY <1>1 DEF Update, SaveInv, Shape, Progress, Loads, Valid
  <2>2. /\ UNCHANGED <<disk, file, data, up, refreshed>> /\ dirty' \in BOOLEAN
        /\ todo' \subseteq Channels
        /\ stage = "idle" /\ stage' \in {"idle", "write"}
        /\ answer' \in {"ok", "refused", "failed"}
    BY <1>1 DEF Update
  <2>3. QED
    BY <2>1, <2>2
<1>2. ASSUME NEW c \in Tokens, RefreshToken(c) PROVE ConfigTypeOK'
  <2>1. \A g \in Files : mem'[g] \in Content(g)
    BY <1>2 DEF RefreshToken, SaveInv, Shape, Content
  <2>2. QED
    BY <1>2, <2>1 DEF RefreshToken
<1>3. ASSUME NEW f \in Files, Write(f) PROVE ConfigTypeOK'
  BY <1>3, ConfigAssumption DEF Write, Files
<1>4. CASE Rename
  <2>1. file \in Files /\ data \in Content(file)
    BY <1>4, ConfigAssumption DEF Rename, Files
  <2>2. \A g \in Files : disk'[g] \in Content(g) \cup {Torn}
    BY <1>4, <2>1 DEF Rename, SaveInv, Shape
  <2>3. QED
    BY <1>4, <2>2 DEF Rename
<1>5. CASE Fail \/ Crash
  BY <1>5 DEF Fail, Crash
<1>6. CASE Start
  <2>1. \A g \in Files : disk[g] \in Content(g)
    BY <1>6 DEF Start, Loads, Valid
  <2>2. file = None /\ stage = "idle"
    BY <1>6 DEF Start, SaveInv, Shape
  <2>3. QED
    BY <1>6, <2>1, <2>2 DEF Start
<1>7. CASE UNCHANGED configVars
  BY <1>7 DEF configVars, Content
<1>8. QED
  BY <1>1, <1>2, <1>3, <1>4, <1>5, <1>6, <1>7 DEF ConfigNext

\* The steps of the pause, in the composition.
PauseMoves ==
    \/ \E d \in 0 .. MaxPause : PauseFlag(d)
    \/ PauseEnd \/ PauseTimer \/ Tick
    \/ \E t \in Timers : ExpireFlag(t) \/ ExpireEnd(t)
    \/ paused' = FALSE /\ end' = 0 /\ timers' = [t \in Timers |-> Unused] /\ command' = NoCommand
    \/ UNCHANGED pauseVars

PauseTimers   == [stage : {"unused", "running", "flag cleared"}, left : 0 .. MaxPause]
PauseCommands == [stage : {"none", "end", "timer"}, duration : 0 .. MaxPause]

\* The timers and commands of a pause, changed as the code changes them.
LEMMA PauseRecords ==
    /\ Unused \in PauseTimers
    /\ NoCommand \in PauseCommands
    /\ \A d \in 0 .. MaxPause :
          Running(d) \in PauseTimers /\ [stage |-> "end", duration |-> d] \in PauseCommands
    /\ \A t \in PauseTimers :
          /\ [t EXCEPT !.stage = "flag cleared"] \in PauseTimers
          /\ [t EXCEPT !.left = IF t.left = 0 THEN 0 ELSE t.left - 1] \in PauseTimers
    /\ \A c \in PauseCommands :
          [c EXCEPT !.stage = "timer"] \in PauseCommands /\ c.duration \in 0 .. MaxPause
    /\ 0 \in 0 .. MaxPause
    /\ \A e \in 0 .. MaxPause : (IF e = 0 THEN 0 ELSE e - 1) \in 0 .. MaxPause
<1>1. 0 \in 0 .. MaxPause /\ \A e \in 0 .. MaxPause : (IF e = 0 THEN 0 ELSE e - 1) \in 0 .. MaxPause
  BY PauseAssumption
<1>2. Unused \in PauseTimers /\ NoCommand \in PauseCommands
  BY <1>1 DEF Unused, NoCommand, PauseTimers, PauseCommands
<1>3. ASSUME NEW d \in 0 .. MaxPause
      PROVE  Running(d) \in PauseTimers /\ [stage |-> "end", duration |-> d] \in PauseCommands
  BY <1>3 DEF Running, PauseTimers, PauseCommands
<1>4. ASSUME NEW t \in PauseTimers
      PROVE  /\ [t EXCEPT !.stage = "flag cleared"] \in PauseTimers
             /\ [t EXCEPT !.left = IF t.left = 0 THEN 0 ELSE t.left - 1] \in PauseTimers
  <2>1. t.left \in 0 .. MaxPause
    BY DEF PauseTimers
  <2>2. \A e \in 0 .. MaxPause : [t EXCEPT !.left = e] \in PauseTimers
    BY DEF PauseTimers
  <2>3. [t EXCEPT !.stage = "flag cleared"] \in PauseTimers
    BY DEF PauseTimers
  <2>4. (IF t.left = 0 THEN 0 ELSE t.left - 1) \in 0 .. MaxPause
    BY <1>1, <2>1
  <2>5. QED
    BY <2>2, <2>3, <2>4
<1>5. ASSUME NEW c \in PauseCommands
      PROVE  [c EXCEPT !.stage = "timer"] \in PauseCommands /\ c.duration \in 0 .. MaxPause
  BY DEF PauseCommands
<1>6. QED
  BY <1>1, <1>2, <1>3, <1>4, <1>5

\* Every variable of the pause keeps its type.
LEMMA PauseTypesKept ==
    ASSUME PauseTypeOK, PauseMoves
    PROVE  PauseTypeOK'
<1>0. /\ paused \in BOOLEAN /\ end \in 0 .. MaxPause
      /\ timers \in [Timers -> PauseTimers] /\ command \in PauseCommands
  BY DEF PauseTypeOK, PauseTimers, PauseCommands
<1>1. paused' \in BOOLEAN
  <2>1. \A d : (d > 0) \in BOOLEAN
    OBVIOUS
  <2>2. \A d : PauseFlag(d) => paused' \in BOOLEAN
    BY <2>1, Zenon DEF PauseFlag
  <2>3. (paused' = FALSE \/ paused' = paused) => paused' \in BOOLEAN
    BY <1>0, Zenon
  <2>4. QED
    BY <2>2, <2>3, Zenon DEF PauseMoves, PauseEnd, PauseTimer, Tick, ExpireFlag, ExpireEnd, pauseVars
<1>2. end' \in 0 .. MaxPause
  BY <1>0, PauseRecords DEF PauseMoves, PauseFlag, PauseEnd, PauseTimer, Tick, ExpireFlag, ExpireEnd,
                            pauseVars
<1>3. command' \in PauseCommands
  BY <1>0, PauseRecords DEF PauseMoves, PauseFlag, PauseEnd, PauseTimer, Tick, ExpireFlag, ExpireEnd,
                            pauseVars
<1>4. timers' \in [Timers -> PauseTimers]
  <2>1. CASE PauseTimer
    <3> DEFINE t == CHOOSE u \in Timers : timers[u] = Unused
    <3>1. timers' = [timers EXCEPT ![t] = Running(command.duration)]
      BY <2>1 DEF PauseTimer
    <3>2. Running(command.duration) \in PauseTimers
      BY <1>0, PauseRecords
    <3> HIDE DEF t
    <3>3. QED
      BY <1>0, <3>1, <3>2
  <2>2. CASE Tick
    BY <1>0, <2>2, PauseRecords DEF Tick
  <2>3. ASSUME NEW t \in Timers, ExpireFlag(t) PROVE timers' \in [Timers -> PauseTimers]
    BY <1>0, <2>3, PauseRecords DEF ExpireFlag
  <2>4. ASSUME NEW t \in Timers, ExpireEnd(t) PROVE timers' \in [Timers -> PauseTimers]
    BY <1>0, <2>4, PauseRecords DEF ExpireEnd
  <2>5. CASE timers' = [t \in Timers |-> Unused] \/ timers' = timers
    BY <1>0, <2>5, PauseRecords
  <2>6. QED
    BY <2>1, <2>2, <2>3, <2>4, <2>5 DEF PauseMoves, PauseFlag, PauseEnd, pauseVars
<1>5. QED
  BY <1>1, <1>2, <1>3, <1>4 DEF PauseTypeOK, PauseTimers, PauseCommands

\* To the pause, each step is one of its moves.
LEMMA NextPauses == [Next]_vars => PauseMoves
  BY DEF Next, vars, PauseMoves, SetValue, InheritPunishments, Reset, OtherCommand, SetToken,
         TokenStep, BeginPause, EndPause, TimePause, SaveStep, PauseStep, PauseTick, Die, Restart

\* A command of the pause is under way only while nothing is saved: it has the
\* lock, and a process that died has no command.
CommandAlone == command # NoCommand => up /\ stage = "idle"

\* No step takes the lock from under it.
LEMMA CommandKept ==
    ASSUME SaveInv, CommandAlone, [Next]_vars
    PROVE  CommandAlone'
<1> USE DEF CommandAlone, Unlocked
<1>1. ASSUME NEW input \in Inputs, SetValue(input.group, input.field, input.value)
      PROVE  CommandAlone'
  BY <1>1 DEF SetValue, pauseVars
<1>2. ASSUME NEW g \in Groups, InheritPunishments(g) PROVE CommandAlone'
  BY <1>2 DEF InheritPunishments, pauseVars
<1>3. CASE Reset \/ OtherCommand \/ \E token \in Tokens : SetToken(token)
  BY <1>3 DEF Reset, OtherCommand, SetToken, pauseVars
<1>4. ASSUME NEW token \in Tokens, TokenStep(token) PROVE CommandAlone'
  BY <1>4 DEF TokenStep, RefreshToken, pauseVars
<1>5. ASSUME NEW d \in 0 .. MaxPause, BeginPause(d) PROVE CommandAlone'
  BY <1>5 DEF BeginPause, configVars
<1>6. CASE EndPause
  BY <1>6 DEF EndPause, PauseEnd, NoCommand, configVars
<1>7. CASE TimePause
  BY <1>7 DEF TimePause, PauseTimer
<1>8. CASE SaveStep
  BY <1>8 DEF SaveStep, Write, Rename, Fail, pauseVars
<1>9. ASSUME NEW t \in Timers, PauseStep(t) PROVE CommandAlone'
  BY <1>9 DEF PauseStep, ExpireFlag, ExpireEnd, configVars
<1>10. CASE PauseTick
  BY <1>10 DEF PauseTick, Tick, configVars
<1>11. CASE Die
  BY <1>11 DEF Die
<1>12. CASE Restart
  BY <1>12 DEF Restart, Start, pauseVars
<1>13. CASE UNCHANGED vars
  BY <1>13 DEF vars, configVars, pauseVars
<1>14. QED
  BY <1>1, <1>2, <1>3, <1>4, <1>5, <1>6, <1>7, <1>8, <1>9, <1>10, <1>11, <1>12, <1>13 DEF Next

-----------------------------------------------------------------------------
(* The ranges.                                                             *)

\* What validate is for the antispam.
Validation == \A spam \in Spam : Accepts(spam) <=> ValidSpam(spam)

\* A group of settings that validate can only refuse for a maximal length
\* without a punishment.
InRange(s) ==
    /\ s.limit \in 2 .. 15
    /\ s.gap \in 0 .. 15
    /\ s.similarity \in (1 .. 10) \cup {NaN}
    /\ s.reset \in 0 .. Day
    /\ s.punishments > 0
    /\ s.length \in 0 .. 500

InRanges == {spam \in Spam : \A g \in Groups : InRange(spam[g])}

\* Nothing else in memory is ever refused.
RangeInv ==
    /\ \A f \in Files \ {Home} : Valid(f, mem[f])
    /\ mem[Home] \in InRanges
    /\ up /\ stage = "idle" /\ answer = "refused" => ~ Valid(Home, mem[Home])

\* What validate asks beyond the ranges: a maximal length has its punishment.
LEMMA ValidIsInRange ==
    ASSUME NEW s
    PROVE  ValidGroup(s) <=> InRange(s) /\ (s.length # 0 => s.lengthPunishment)
  BY Zenon DEF ValidGroup, InRange

\* A number of punishments inherited from the default settings is one.
LEMMA InheritedInRange ==
    ASSUME NEW s \in Group, InRange(s), NEW n \in Numbers, n > 0
    PROVE  /\ [s EXCEPT !.punishments = n] \in Group
           /\ InRange([s EXCEPT !.punishments = n])
<1> DEFINE t == [s EXCEPT !.punishments = n]
<1>1. t \in Group
  BY DEF Group
<1>2. /\ t.limit = s.limit /\ t.gap = s.gap /\ t.similarity = s.similarity
      /\ t.reset = s.reset /\ t.length = s.length /\ t.punishments = n
  BY DEF Group
<1> HIDE DEF t
<1>3. InRange(t)
  BY <1>2 DEF InRange
<1>4. QED
  BY <1>1, <1>3 DEF t

\* A value a handler lets through is in the range of validate.
LEMMA ParsedInRange ==
    ASSUME NEW s \in Group, InRange(s), NEW g, NEW field, NEW value, Parsed(g, field, value)
    PROVE  InRange(Changed(s, field, value))
<1>1. CASE field = "limit" /\ value \in Limits
  BY <1>1 DEF InRange, Changed, Group, Limits
<1>2. CASE field = "gap" /\ value \in 0 .. 15
  BY <1>2 DEF InRange, Changed, Group
<1>3. CASE field = "similarity" /\ value \in (1 .. 10) \cup {NaN}
  BY <1>3 DEF InRange, Changed, Group
<1>4. CASE field = "reset" /\ value \in 1 .. Day
  BY <1>4, DayIsLong DEF InRange, Changed, Group
<1>5. CASE field = "punishments" /\ value \in 1 .. 15
  BY <1>5 DEF InRange, Changed, Group
<1>6. CASE field = "length" /\ value \in 0 .. IF g = "emote" THEN 50 ELSE 500
  BY <1>6 DEF InRange, Changed, Group
<1>7. CASE field = "lengthPunishment" /\ value = TRUE
  BY <1>7 DEF InRange, Changed, Group
<1>8. QED
  BY <1>1, <1>2, <1>3, <1>4, <1>5, <1>6, <1>7 DEF Parsed

\* What the commands do to the configuration.
SettingsNext ==
    \/ \E spam \in InRanges : Update(Home, spam)
    \/ \E token \in Tokens : Update(Main, token) \/ RefreshToken(token)
    \/ \E f \in Files : Write(f)
    \/ Rename \/ Fail \/ Crash \/ Start

\* The defaults are in range.
LEMMA DefaultsInRange == DefaultSpam \in InRanges
  BY DefaultsAreSettings, DayIsLong
     DEF InRanges, InRange, DefaultSpam, DefaultWords, DefaultEmotes, Groups

\* To the configuration, each step is one that stays in range.
LEMMA StepsStayInRange ==
    ASSUME RangeInv, [Next]_vars
    PROVE  [SettingsNext]_configVars
<1>0. mem[Home] \in InRanges /\ mem[Home] \in Spam
  BY DEF RangeInv, InRanges
<1>1. ASSUME NEW input \in Inputs, SetValue(input.group, input.field, input.value)
      PROVE  SettingsNext
  <2> DEFINE g == input.group
             spam == [mem[Home] EXCEPT ![g] = Changed(@, input.field, input.value)]
  <2>1. g \in Groups
    BY AntispamAssumption
  <2>2. spam \in Spam
    BY <1>0, <1>1, <2>1, ParsedIsSetting DEF SetValue
  <2>3. mem[Home][g] \in Group /\ InRange(mem[Home][g])
    BY <1>0, <2>1 DEF InRanges, Spam, Groups
  <2>4. InRange(Changed(mem[Home][g], input.field, input.value))
    BY <1>1, <2>3, ParsedInRange DEF SetValue
  <2>5. \A h \in Groups : InRange(spam[h])
    BY <1>0, <2>1, <2>4 DEF InRanges, Spam, Groups
  <2>6. spam \in InRanges
    BY <2>2, <2>5 DEF InRanges
  <2>7. QED
    BY <1>1, <2>6 DEF SetValue, SettingsNext
<1>2. ASSUME NEW g \in Groups, InheritPunishments(g)
      PROVE  SettingsNext
  <2> DEFINE n    == mem[Home].default.punishments
             spam == [mem[Home] EXCEPT ![g].punishments = n]
  <2>1. n \in Numbers /\ n > 0
    BY <1>0 DEF InRanges, InRange, Spam, Groups, Group
  <2>2. mem[Home][g] \in Group /\ InRange(mem[Home][g])
    BY <1>0 DEF InRanges, Spam, Groups
  <2>3. /\ [mem[Home][g] EXCEPT !.punishments = n] \in Group
        /\ InRange([mem[Home][g] EXCEPT !.punishments = n])
    BY <2>1, <2>2, InheritedInRange
  <2>4. spam \in Spam /\ \A h \in Groups : InRange(spam[h])
    BY <1>0, <2>3 DEF InRanges, Spam, Groups
  <2>5. spam \in InRanges
    BY <2>4 DEF InRanges
  <2>6. QED
    BY <1>2, <2>5 DEF InheritPunishments, SettingsNext
<1>3. CASE Reset
  BY <1>3, DefaultsInRange DEF Reset, SettingsNext
<1>4. CASE OtherCommand \/ TimePause
  BY <1>4, <1>0 DEF OtherCommand, TimePause, SettingsNext
<1>5. ASSUME NEW token \in Tokens, SetToken(token) \/ TokenStep(token)
      PROVE  SettingsNext
  BY <1>5 DEF SetToken, TokenStep, SettingsNext
<1>6. ASSUME NEW d \in 0 .. MaxPause, BeginPause(d)
      PROVE  UNCHANGED configVars
  BY <1>6 DEF BeginPause
<1>7. CASE EndPause
  BY <1>7, <1>0 DEF EndPause, SettingsNext
<1>8. CASE SaveStep
  BY <1>8 DEF SaveStep, SettingsNext
<1>9. ASSUME NEW t \in Timers, PauseStep(t)
      PROVE  UNCHANGED configVars
  BY <1>9 DEF PauseStep
<1>10. CASE PauseTick
  BY <1>10 DEF PauseTick
<1>11. CASE Die \/ Restart
  BY <1>11 DEF Die, Restart, SettingsNext
<1>12. CASE UNCHANGED vars
  BY <1>12 DEF vars
<1>13. QED
  BY <1>1, <1>2, <1>3, <1>4, <1>5, <1>6, <1>7, <1>8, <1>9, <1>10, <1>11, <1>12 DEF Next

\* Files that load are in range.
LEMMA LoadedInRange ==
    ASSUME Validation, NEW config, Loads(config)
    PROVE  /\ \A f \in Files : Valid(f, config[f])
           /\ config[Home] \in InRanges
<1>1. Home \in Files /\ Home \in Channels /\ Content(Home) = Spam
  BY AntispamAssumption, ConfigAssumption DEF Files, Content
<1>2. config[Home] \in Spam /\ ValidSpam(config[Home])
  BY <1>1 DEF Loads, Valid, Validation
<1>3. \A g \in Groups : InRange(config[Home][g])
  BY <1>2, ValidIsInRange DEF ValidSpam
<1>4. QED
  BY <1>2, <1>3 DEF Loads, InRanges

\* Such a step keeps the ranges, and a refusal its ground.
LEMMA RangeKept ==
    ASSUME Validation, SaveInv, RangeInv, [SettingsNext]_configVars
    PROVE  RangeInv'
<1>0. /\ Home \in Files /\ Main \in Files /\ Home # Main
      /\ \A spam \in InRanges : spam \in Content(Home)
      /\ \A token \in Tokens : Valid(Main, token)
  BY AntispamAssumption, ConfigAssumption DEF Files, Content, Valid, InRanges
<1>1. ASSUME NEW spam \in InRanges, Update(Home, spam) PROVE RangeInv'
  <2>1. mem'[Home] = spam /\ \A f \in Files \ {Home} : mem'[f] = mem[f]
    BY <1>0, <1>1 DEF Update, SaveInv, Shape
  <2>2. \A f \in Files \ {Home} : Valid(f, mem'[f])
    BY <2>1 DEF RangeInv
  <2>3. Loads(mem') <=> Valid(Home, mem'[Home])
    BY <1>0, <2>2 DEF Loads
  <2>4. answer' = "refused" /\ stage' = "idle" => ~ Loads(mem')
    BY <1>1 DEF Update
  <2>5. QED
    BY <2>1, <2>2, <2>3, <2>4 DEF RangeInv, Valid, Content
<1>2. ASSUME NEW token \in Tokens, Update(Main, token) PROVE RangeInv'
  <2>1. mem'[Main] = token /\ \A f \in Files \ {Main} : mem'[f] = mem[f]
    BY <1>0, <1>2 DEF Update, SaveInv, Shape
  <2>2. \A f \in Files \ {Home} : Valid(f, mem'[f])
    BY <1>0, <2>1 DEF RangeInv
  <2>3. Loads(mem') <=> Valid(Home, mem'[Home])
    BY <1>0, <2>2 DEF Loads
  <2>4. answer' = "refused" /\ stage' = "idle" => ~ Loads(mem')
    BY <1>2 DEF Update
  <2>5. QED
    BY <1>0, <2>1, <2>2, <2>3, <2>4 DEF RangeInv, Valid, Content
<1>3. ASSUME NEW token \in Tokens, RefreshToken(token) PROVE RangeInv'
  <2>1. mem'[Main] = token /\ \A f \in Files \ {Main} : mem'[f] = mem[f]
    BY <1>0, <1>3 DEF RefreshToken, SaveInv, Shape
  <2>2. \A f \in Files \ {Home} : Valid(f, mem'[f])
    BY <1>0, <2>1 DEF RangeInv
  <2>3. UNCHANGED <<up, stage, answer>>
    BY <1>3 DEF RefreshToken
  <2>4. QED
    BY <1>0, <2>1, <2>2, <2>3 DEF RangeInv, Valid, Content
<1>4. ASSUME mem' = mem, up' /\ stage' = "idle" => answer' # "refused" PROVE RangeInv'
  BY <1>4 DEF RangeInv, Valid, Content
<1>5. ASSUME NEW f \in Files, Write(f) PROVE RangeInv'
  BY <1>4, <1>5 DEF Write
<1>6. CASE Rename
  BY <1>4, <1>6 DEF Rename
<1>7. CASE Fail \/ Crash
  BY <1>4, <1>7 DEF Fail, Crash
<1>8. CASE Start
  <2>1. mem' = disk /\ Loads(disk) /\ answer' = "ok"
    BY <1>8 DEF Start
  <2>2. QED
    BY <2>1, LoadedInRange DEF RangeInv, Valid, Content
<1>9. CASE UNCHANGED configVars
  BY <1>9 DEF configVars, RangeInv, Valid, Content
<1>10. QED
  BY <1>1, <1>2, <1>3, <1>5, <1>6, <1>7, <1>8, <1>9 DEF SettingsNext

\* The manager's invariant and the ranges.
LEMMA RangeInvariant ==
    ASSUME Validation
    PROVE  Spec => [](SaveInv /\ RangeInv)
<1>1. Init => RangeInv
  <2>1. Init => mem = disk /\ Loads(disk) /\ answer = "ok"
    BY DEF Init, ConfigInit
  <2>2. QED
    BY <2>1, LoadedInRange DEF RangeInv
<1>2. RangeInv /\ SaveInv /\ [Next]_vars => RangeInv'
  BY StepsStayInRange, RangeKept
<1>3. QED
  BY <1>1, <1>2, SettingsSaveInvariant, PTL DEF Spec

\* With the validation of the antispam's settings, whatever commands have been
\* given, in whatever order and with whatever failures and restarts between,
\* an update is only refused for a maximal length without a punishment: the
\* ranges of the handlers' parsers are within those of validate.
THEOREM HandlersAlwaysKeepValid ==
    ASSUME Validation
    PROVE  Spec => []HandlersKeepValid
<1>1. SaveInv /\ RangeInv => HandlersKeepValid
  <2> SUFFICES ASSUME SaveInv, RangeInv, up, stage = "idle", answer = "refused"
               PROVE  \E g \in Groups :
                        mem[Home][g].length # 0 /\ ~ mem[Home][g].lengthPunishment
    BY DEF HandlersKeepValid
  <2>1. ~ Valid(Home, mem[Home]) /\ mem[Home] \in InRanges
    BY DEF RangeInv
  <2>2. mem[Home] \in Spam /\ \A g \in Groups : InRange(mem[Home][g])
    BY <2>1 DEF InRanges
  <2>3. ~ ValidSpam(mem[Home])
    BY <2>1, <2>2, AntispamAssumption, ConfigAssumption DEF Valid, Content, Validation
  <2>4. PICK g \in Groups : ~ ValidGroup(mem[Home][g])
    BY <2>3 DEF ValidSpam
  <2>5. QED
    BY <2>2, <2>4, ValidIsInRange
<1>2. QED
  BY <1>1, RangeInvariant, PTL

-----------------------------------------------------------------------------
(* The store.                                                              *)

\* A group in range looks back on a number of messages.
LEMMA ReachIsNat ==
    ASSUME NEW s, InRange(s)
    PROVE  Reach(s) \in Nat
<1>1. CASE s.similarity = NaN
  BY <1>1 DEF Reach
<1>2. CASE s.similarity # NaN
  <2>1. /\ s.limit \in Nat /\ s.gap \in Nat
        /\ s.similarity \in Nat /\ s.similarity > 0
    BY <1>2 DEF InRange
  <2>2. \A l, n \in Nat : 10 * l * n \in Nat
    OBVIOUS
  <2>3. \A m, d \in Nat : d > 0 => m \div d \in Nat
    OBVIOUS
  <2>4. QED
    BY <1>2, <2>1, <2>2, <2>3 DEF Reach
<1>3. QED
  BY <1>1, <1>2

\* Of three numbers one is the largest.
LEMMA LargestOfThree ==
    ASSUME NEW a \in Nat, NEW b \in Nat, NEW c \in Nat
    PROVE  /\ Max({a, b, c}) \in {a, b, c}
           /\ a <= Max({a, b, c}) /\ b <= Max({a, b, c}) /\ c <= Max({a, b, c})
<1>1. \E x \in {a, b, c} : \A y \in {a, b, c} : x >= y
  <2>1. CASE a >= b /\ a >= c
    BY <2>1
  <2>2. CASE b >= a /\ b >= c
    BY <2>2
  <2>3. CASE c >= a /\ c >= b
    BY <2>3
  <2>4. QED
    BY <2>1, <2>2, <2>3
<1>2. /\ Max({a, b, c}) \in {a, b, c}
      /\ \A y \in {a, b, c} : Max({a, b, c}) >= y
  BY <1>1 DEF Max
<1>3. QED
  BY <1>2

\* The capacity asked for is enough for every group.
LEMMA CapacityCovers ==
    ASSUME NEW spam \in InRanges
    PROVE  /\ CalculateCapacity(spam) \in Nat
           /\ EncodableSpam(spam) =>
                 \A g \in Groups : Reach(spam[g]) <= CalculateCapacity(spam)
<1> DEFINE a == Reach(spam["default"])
           b == Reach(spam["vip"])
           c == Reach(spam["emote"])
<1>1. a \in Nat /\ b \in Nat /\ c \in Nat
  BY ReachIsNat DEF InRanges, Groups
<1>2. {Reach(spam[g]) : g \in Groups} = {a, b, c}
  BY DEF Groups
<1>3. CASE EncodableSpam(spam)
  <2>1. CalculateCapacity(spam) = Max({a, b, c})
    BY <1>2, <1>3 DEF CalculateCapacity
  <2>2. /\ Max({a, b, c}) \in {a, b, c}
        /\ a <= Max({a, b, c}) /\ b <= Max({a, b, c}) /\ c <= Max({a, b, c})
    BY <1>1, LargestOfThree
  <2>3. QED
    BY <1>1, <2>1, <2>2 DEF Groups
<1>4. CASE ~ EncodableSpam(spam)
  BY <1>4 DEF CalculateCapacity
<1>5. QED
  BY <1>3, <1>4

\* The default settings look back on less than the store starts with.
LEMMA DefaultsFit ==
    /\ EncodableSpam(DefaultSpam) => \A g \in Groups : Reach(DefaultSpam[g]) <= InitialCapacity
<1>1. Reach(DefaultWords) <= 50 /\ Reach(DefaultEmotes) <= 50
  <2>1. DefaultWords.limit = 3 /\ DefaultWords.gap = 3 /\ DefaultWords.similarity = 7
    BY DEF DefaultWords
  <2>2. DefaultEmotes.limit = 7 /\ DefaultEmotes.gap = 1 /\ DefaultEmotes.similarity = 9
    BY DEF DefaultEmotes
  <2>3. (10 * 3 * 3) \div 7 <= 50 /\ (10 * 7 * 1) \div 9 <= 50
    OBVIOUS
  <2>4. QED
    BY <2>1, <2>2, <2>3 DEF Reach
<1>2. \A g \in Groups : DefaultSpam[g] \in {DefaultWords, DefaultEmotes}
  BY DEF DefaultSpam, Groups
<1>3. QED
  BY <1>1, <1>2 DEF InitialCapacity

\* What the capacity is to the limits.
StoreInv ==
    /\ capacity \in Nat /\ capacity >= InitialCapacity
    /\ tuned \in BOOLEAN
    /\ StoreCoversLimits

\* Settings that look back as far are covered as before.
SameReach(old, new) ==
    /\ \A g \in Groups : Reach(new[g]) = Reach(old[g])
    /\ EncodableSpam(new) = EncodableSpam(old)

\* The limits, gaps and similarities are all the store looks at.
LEMMA ReachSame ==
    ASSUME NEW old, NEW new,
           \A g \in Groups : /\ new[g].limit = old[g].limit /\ new[g].gap = old[g].gap
                             /\ new[g].similarity = old[g].similarity
    PROVE  SameReach(old, new)
<1>1. \A g \in Groups : Reach(new[g]) = Reach(old[g])
  BY DEF Reach
<1>2. EncodableSpam(new) = EncodableSpam(old)
  BY DEF EncodableSpam
<1>3. QED
  BY <1>1, <1>2 DEF SameReach

\* With these the store and what it has to hold stay as they are.
LEMMA StoreSame ==
    ASSUME StoreInv, UNCHANGED storeVars, SameReach(mem[Home], mem'[Home])
    PROVE  StoreInv'
  BY DEF StoreInv, storeVars, SameReach, StoreCoversLimits

\* Each step keeps the store as large as the limits in force ask for.
LEMMA StoreKept ==
    ASSUME SaveInv, RangeInv, RangeInv', StoreInv, [Next]_vars
    PROVE  StoreInv'
<1>0. /\ mem[Home] \in InRanges /\ mem'[Home] \in InRanges
      /\ mem[Home] \in Spam
      /\ Home # Main /\ Home \in Files
      /\ mem \in [Files -> Settings \cup Tokens]
      /\ DOMAIN mem[Home] = Groups
      /\ \A g \in Groups : mem[Home][g] \in Group
  BY AntispamAssumption, ConfigAssumption
     DEF RangeInv, InRanges, SaveInv, Shape, Files, Spam, Groups
<1>1. ASSUME NEW input \in Inputs, SetValue(input.group, input.field, input.value)
      PROVE  StoreInv'
  <2> DEFINE g == input.group
             s == Changed(mem[Home][g], input.field, input.value)
             spam == [mem[Home] EXCEPT ![g] = s]
  <2>1. g \in Groups
    BY AntispamAssumption
  <2>2. mem'[Home] = spam
    BY <1>0, <1>1 DEF SetValue, Update
  <2>3. CASE input.field \in {"limit", "gap", "similarity"}
    <3>1. SetCapacity(spam)
      BY <1>1, <2>3 DEF SetValue
    <3>2. /\ CalculateCapacity(spam) \in Nat
          /\ EncodableSpam(spam) =>
                \A h \in Groups : Reach(spam[h]) <= CalculateCapacity(spam)
      BY <1>0, <2>2, CapacityCovers
    <3> HIDE DEF spam
    <3>3. \A h \in Groups : Reach(spam[h]) \in Nat
      BY <1>0, <2>2, ReachIsNat DEF InRanges
    <3>4. StoreCoversLimits'
      BY <2>2, <3>1, <3>2, <3>3 DEF SetCapacity, StoreCoversLimits, StoreInv, InitialCapacity
    <3>5. QED
      BY <3>1, <3>2, <3>4 DEF SetCapacity, StoreInv, InitialCapacity
  <2>4. CASE input.field \notin {"limit", "gap", "similarity"}
    <3>1. UNCHANGED storeVars
      BY <1>1, <2>4 DEF SetValue
    <3>2. input.field \in {"reset", "punishments", "length", "lengthPunishment"}
      BY <1>1, <2>4 DEF SetValue, Parsed
    <3>3. /\ s.limit = mem[Home][g].limit /\ s.gap = mem[Home][g].gap
          /\ s.similarity = mem[Home][g].similarity
      BY <1>0, <2>1, <3>2 DEF Changed, Group
    <3>4. \A h \in Groups : spam[h] = IF h = g THEN s ELSE mem[Home][h]
      BY <1>0
    <3> HIDE DEF s, spam
    <3>5. SameReach(mem[Home], spam)
      BY <3>3, <3>4, ReachSame
    <3>6. QED
      BY <2>2, <3>1, <3>5, StoreSame
  <2>5. QED
    BY <2>3, <2>4
<1>2. ASSUME NEW g \in Groups, InheritPunishments(g)
      PROVE  StoreInv'
  <2> DEFINE n == mem[Home].default.punishments
             s == [mem[Home][g] EXCEPT !.punishments = n]
             spam == [mem[Home] EXCEPT ![g] = s]
  <2>1. mem'[Home] = spam /\ UNCHANGED storeVars
    BY <1>0, <1>2 DEF InheritPunishments, Update
  <2>2. /\ s.limit = mem[Home][g].limit /\ s.gap = mem[Home][g].gap
        /\ s.similarity = mem[Home][g].similarity
    BY <1>0 DEF Group
  <2>3. \A h \in Groups : spam[h] = IF h = g THEN s ELSE mem[Home][h]
    BY <1>0
  <2> HIDE DEF s, spam
  <2>4. SameReach(mem[Home], spam)
    BY <2>2, <2>3, ReachSame
  <2>5. QED
    BY <2>1, <2>4, StoreSame
<1>3. CASE Reset
  <2>1. mem'[Home] = DefaultSpam /\ UNCHANGED storeVars
    BY <1>0, <1>3 DEF Reset, Update
  <2>2. \A g \in Groups : Reach(DefaultSpam[g]) \in Nat
    BY <1>0, <2>1, ReachIsNat DEF InRanges
  <2>3. StoreCoversLimits'
    BY <2>1, <2>2, DefaultsFit DEF StoreCoversLimits, StoreInv, storeVars, InitialCapacity
  <2>4. QED
    BY <2>1, <2>3 DEF StoreInv, storeVars
<1>4. ASSUME mem'[Home] = mem[Home], UNCHANGED storeVars
      PROVE  StoreInv'
  BY <1>4, StoreSame DEF SameReach
<1>5. CASE OtherCommand \/ TimePause
  BY <1>0, <1>4, <1>5 DEF OtherCommand, TimePause, Update
<1>6. ASSUME NEW token \in Tokens, SetToken(token) \/ TokenStep(token)
      PROVE  StoreInv'
  BY <1>0, <1>4, <1>6 DEF SetToken, TokenStep, Update, RefreshToken
<1>7. ASSUME NEW d \in 0 .. MaxPause, BeginPause(d)
      PROVE  StoreInv'
  BY <1>4, <1>7 DEF BeginPause, configVars
<1>8. CASE EndPause
  BY <1>0, <1>4, <1>8 DEF EndPause, Update, configVars
<1>9. CASE SaveStep
  BY <1>4, <1>9 DEF SaveStep, Write, Rename, Fail
<1>10. ASSUME NEW t \in Timers, PauseStep(t)
      PROVE  StoreInv'
  BY <1>4, <1>10 DEF PauseStep, configVars
<1>11. CASE PauseTick
  BY <1>4, <1>11 DEF PauseTick, configVars
<1>12. CASE Die
  BY <1>4, <1>12 DEF Die, Crash
<1>13. CASE Restart
  <2>1. capacity' = 50 /\ tuned' = FALSE
    BY <1>13 DEF Restart, InitialCapacity
  <2>2. StoreCoversLimits'
    BY <2>1, Zenon DEF StoreCoversLimits
  <2>3. capacity' \in Nat /\ capacity' >= InitialCapacity
    BY <2>1 DEF InitialCapacity
  <2>4. QED
    BY <2>1, <2>2, <2>3, Zenon DEF StoreInv
<1>14. CASE UNCHANGED vars
  BY <1>4, <1>14 DEF vars, configVars, storeVars
<1>15. QED
  BY <1>1, <1>2, <1>3, <1>5, <1>6, <1>7, <1>8, <1>9, <1>10, <1>11, <1>12, <1>13, <1>14 DEF Next

\* Configuration, ranges, pause and store together.
LEMMA StoreInvariant ==
    ASSUME Validation
    PROVE  Spec => []StoreInv
<1>1. Init => StoreInv
  <2> SUFFICES ASSUME Init PROVE StoreInv
    OBVIOUS
  <2>1. capacity = 50 /\ tuned = FALSE
    BY DEF Init, InitialCapacity
  <2>2. StoreCoversLimits
    BY <2>1, Zenon DEF StoreCoversLimits
  <2>3. capacity \in Nat /\ capacity >= InitialCapacity
    BY <2>1 DEF InitialCapacity
  <2>4. QED
    BY <2>1, <2>2, <2>3, Zenon DEF StoreInv
<1>2. (SaveInv /\ RangeInv) /\ (SaveInv /\ RangeInv)' /\ StoreInv /\ [Next]_vars => StoreInv'
  BY StoreKept
<1>3. QED
  BY <1>1, <1>2, RangeInvariant, PTL DEF Spec

\* Once a limit has been set, the store holds as many messages of a user as the
\* limits look back on, after whatever sequence of commands, resets included:
\* the capacity never shrinks below what is in force.
THEOREM StoreAlwaysCovers ==
    ASSUME Validation
    PROVE  Spec => []StoreCoversLimits
<1>1. StoreInv => StoreCoversLimits
  BY DEF StoreInv
<1>2. QED
  BY <1>1, StoreInvariant, PTL

-----------------------------------------------------------------------------

\* Every variable has its type.  The capacity is a number only because no
\* similarity is 0, and a command of the pause leaves its lock with the save.
THEOREM SettingsTypes ==
    ASSUME Validation
    PROVE  Spec => []TypeOK
<1>1. Init => ConfigTypeOK
  <2>1. Init => /\ \A f \in Files : disk[f] \in Content(f)
                /\ ConfigInit
    BY DEF Init, ConfigInit, Loads, Valid
  <2>2. QED
    BY <2>1, ConfigAssumption DEF ConfigInit, ConfigTypeOK, Files
<1>2. Init => PauseTypeOK
  <2> SUFFICES ASSUME PauseInit PROVE PauseTypeOK
    BY DEF Init
  <2>1. timers \in [Timers -> PauseTimers] /\ command \in PauseCommands /\ end \in 0 .. MaxPause
    BY PauseRecords DEF PauseInit
  <2>2. paused \in BOOLEAN
    BY DEF PauseInit
  <2>3. QED
    BY <2>1, <2>2 DEF PauseTypeOK, PauseTimers, PauseCommands
<1>3. Init => CommandAlone
  BY DEF Init, PauseInit, CommandAlone
<1>4. SaveInv /\ ConfigTypeOK /\ [Next]_vars => ConfigTypeOK'
  BY ConfigTypesKept, StepsAreConfigSteps, HomeHasSpam
<1>5. PauseTypeOK /\ [Next]_vars => PauseTypeOK'
  BY PauseTypesKept, NextPauses
<1>6. SaveInv /\ CommandAlone /\ [Next]_vars => CommandAlone'
  BY CommandKept
<1>7. ConfigTypeOK /\ PauseTypeOK /\ CommandAlone /\ StoreInv => TypeOK
  BY DEF CommandAlone, StoreInv, TypeOK
<1>8. QED
  BY <1>1, <1>2, <1>3, <1>4, <1>5, <1>6, <1>7, SettingsSaveInvariant, StoreInvariant, PTL DEF Spec
=============================================================================
