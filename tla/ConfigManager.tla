--------------------------- MODULE ConfigManager ---------------------------
(***************************************************************************)
(* infrastructure/config/config.go: the configuration in memory and the    *)
(* files it is saved to, one per channel and one for the rest.             *)
(*                                                                         *)
(* Manager.Update changes memory, validates and saves, all under m.mu, so  *)
(* one update is under way at a time.  The process may die between any two *)
(* system calls of a save, and any of them may fail.  An update is one     *)
(* admin command (one channel) or a new user token (the main file).  A     *)
(* token that is refreshed is put into the same memory without the lock    *)
(* and without a save (adapters/platform/twitch/api/api_usertokens.go).    *)
(*                                                                         *)
(* What a channel's settings are, which of them validate accepts and which *)
(* can be encoded are parameters; AntispamSettings gives them.  Of the     *)
(* main file is kept only that its content changes.  The very first start, *)
(* which writes a default file for the operator to fill in, is left out.   *)
(***************************************************************************)
EXTENDS FiniteSets

CONSTANTS
    Channels,   \* channels, and the names of their files
    Main,       \* config.json
    Settings,   \* contents of a channel
    Accepts(_), \* those that validate accepts ...
    Encodes(_), \* ... and those that json.Marshal can write
    Tokens,     \* contents of the main file
    Torn,       \* content of a file that is half written
    None

ASSUME ConfigAssumption ==
    /\ Main \notin Channels
    /\ Tokens # {}
    /\ None \notin Channels \cup {Main}

VARIABLES
    mem,      \* Manager.cfg: the content of each file as held in memory
    disk,     \* the content of each file
    todo,     \* channel files the save has yet to write
    stage,    \* "idle", or what the save does next: "write" or "rename"
    file,     \* the file whose temporary file is there to be renamed
    data,     \* the content of the temporary file
    answer,   \* how the last update ended
    up,       \* whether the process runs
    before,   \* the disk when the last update, or the process, started
    dirty,    \* memory held unsaved changes then, or has got some besides it
    refreshed \* a token has been refreshed since config.json was last encoded

configVars ==
    <<mem, disk, todo, stage, file, data, answer, up, before, dirty, refreshed>>

Files   == Channels \cup {Main}
Content(f) == IF f = Main THEN Tokens ELSE Settings

\* validate, of one file.
Valid(f, c) ==
    /\ c \in Content(f)
    /\ f \in Channels => Accepts(c)

Loads(config) == \A f \in Files : Valid(f, config[f])

ConfigInit ==
    /\ disk \in [Files -> Settings \cup Tokens]
    /\ Loads(disk)
    /\ mem = disk
    /\ before = disk
    /\ todo = {}
    /\ stage = "idle"
    /\ file = None
    /\ data = None
    /\ answer = "ok"
    /\ up = TRUE
    /\ dirty = FALSE
    /\ refreshed = FALSE

-----------------------------------------------------------------------------
(* Manager.Update                                                          *)

\* Mutant: saved without having been validated.
UpdateUnvalidated(f, c) ==
    /\ up /\ stage = "idle"
    /\ mem' = [mem EXCEPT ![f] = c]
    /\ before' = disk
    /\ dirty' = (mem # disk)
    /\ todo' = Channels /\ stage' = "write"
    /\ UNCHANGED <<disk, file, data, up, answer, refreshed>>

\* modify, then validate of the whole configuration; what modify has changed
\* stays in memory also when validate refuses it.
Update(f, c) ==
    /\ up /\ stage = "idle"
    /\ mem' = [mem EXCEPT ![f] = c]
    /\ before' = disk
    /\ dirty' = (mem # disk)
    /\ IF Loads(mem')
       THEN todo' = Channels /\ stage' = "write" /\ UNCHANGED answer
       ELSE answer' = "refused" /\ UNCHANGED <<todo, stage>>
    /\ UNCHANGED <<disk, file, data, up, refreshed>>

\* ensureUserToken and RefreshToken: the token that is about to expire is
\* replaced, or deleted when Twitch refuses it, also in the course of a save.
RefreshToken(c) ==
    /\ up
    /\ c # mem[Main]
    /\ mem' = [mem EXCEPT ![Main] = c]
    /\ dirty' = TRUE
    /\ refreshed' = TRUE
    /\ UNCHANGED <<disk, todo, stage, file, data, answer, up, before>>

-----------------------------------------------------------------------------
(* saveLocked: the channel files in the order of a map iteration, then the *)
(* main file, each by writeAtomic.                                         *)

\* Mutant: the channels are left out.
NextFilesMain == {Main}

NextFiles == IF todo # {} THEN todo ELSE {Main}

\* Mutant: the file is written in place.
WriteInPlace(f) ==
    /\ up /\ stage = "write"
    /\ f \in NextFiles
    /\ stage' = "rename"
    /\ file' = f
    /\ data' = mem[f]
    /\ disk' = [disk EXCEPT ![f] = Torn]
    /\ refreshed' = (refreshed /\ f # Main)
    /\ UNCHANGED <<mem, todo, answer, up, before, dirty>>

\* json.Marshal, then os.WriteFile of the temporary file, which New does not
\* read.
Write(f) ==
    /\ up /\ stage = "write"
    /\ f \in NextFiles
    /\ f \in Channels => Encodes(mem[f])
    /\ stage' = "rename"
    /\ file' = f
    /\ data' = mem[f]
    /\ refreshed' = (refreshed /\ f # Main)
    /\ UNCHANGED <<mem, disk, todo, answer, up, before, dirty>>

\* os.Rename: the file has its new content at once.
Rename ==
    /\ up /\ stage = "rename"
    /\ disk' = [disk EXCEPT ![file] = data]
    /\ file' = None
    /\ data' = None
    /\ IF file = Main
       THEN stage' = "idle" /\ answer' = "ok"
       ELSE stage' = "write" /\ UNCHANGED answer
    /\ todo' = todo \ {file}
    /\ UNCHANGED <<mem, up, before, dirty, refreshed>>

\* Mutant: the temporary file is taken for pending.
FailKeepsFile ==
    /\ up /\ stage # "idle"
    /\ stage' = "idle"
    /\ todo' = {}
    /\ answer' = "failed"
    /\ UNCHANGED <<mem, disk, file, data, up, before, dirty, refreshed>>

\* A call fails: the save ends there.
Fail ==
    /\ up /\ stage # "idle"
    /\ stage' = "idle"
    /\ todo' = {}
    /\ file' = None
    /\ data' = None
    /\ answer' = "failed"
    /\ UNCHANGED <<mem, disk, up, before, dirty, refreshed>>

-----------------------------------------------------------------------------

Crash ==
    /\ up
    /\ up' = FALSE
    /\ stage' = "idle"
    /\ todo' = {}
    /\ file' = None
    /\ data' = None
    /\ UNCHANGED <<mem, disk, answer, before, dirty, refreshed>>

\* New: reads and validates the files, and gives up on one that is not valid.
Start ==
    /\ ~ up
    /\ Loads(disk)
    /\ up' = TRUE
    /\ mem' = disk
    /\ before' = disk
    /\ answer' = "ok"
    /\ dirty' = FALSE
    /\ refreshed' = FALSE
    /\ UNCHANGED <<disk, todo, stage, file, data>>

ConfigNext ==
    \/ \E f \in Files : \E c \in Content(f) : Update(f, c)
    \/ \E c \in Tokens : RefreshToken(c)
    \/ \E f \in Files : Write(f)
    \/ Rename \/ Fail \/ Crash \/ Start

ConfigSpec == ConfigInit /\ [][ConfigNext]_configVars

-----------------------------------------------------------------------------
(* Properties.                                                             *)

ConfigTypeOK ==
    /\ \A f \in Files : \A config \in {mem, before} : config[f] \in Content(f)
    /\ \A f \in Files : disk[f] \in Content(f) \cup {Torn}
    /\ todo \subseteq Channels
    /\ stage \in {"idle", "write", "rename"}
    /\ file \in Files \cup {None}
    /\ file # None <=> stage = "rename"
    /\ answer \in {"ok", "refused", "failed"}
    /\ file # None => data \in Content(file)
    /\ up \in BOOLEAN /\ dirty \in BOOLEAN /\ refreshed \in BOOLEAN

\* Whenever the process dies, it will start again: each file is whole and
\* valid at every moment, in the middle of a save and after a refused or
\* failed one too.
DiskLoads == Loads(disk)

\* An update that succeeded is on the disk, and so is everything earlier
\* updates left in memory, except a token refreshed since, or in the course of
\* the save too late to be encoded.
SuccessIsOnDisk ==
    up /\ stage = "idle" /\ answer = "ok" =>
        \A f \in Files : disk[f] = mem[f] \/ (f = Main /\ refreshed)

\* With no save under way, and the last one a success, nothing in memory is
\* missing on the disk.  The code breaks it: a refreshed token is only saved by
\* the next command, of any channel, and a restart before it finds the old one.
EverythingIsOnDisk == up /\ stage = "idle" /\ answer = "ok" => disk = mem

\* An update is saved as a whole or not at all, wherever a save fails or the
\* process dies, as long as memory held nothing unsaved when it was asked for.
AllOrNothing == ~ dirty => disk \in {before, mem}

\* "max_word_punishment must be one of ...", "invalid config update": what
\* the program runs with satisfies validate.  The code breaks it: a refused
\* change stays in memory, and every further update, of any channel, is
\* refused on its account.
MemoryIsValid == Loads(mem)

\* What the program runs with can be saved.  The code breaks it.
MemoryIsEncodable == \A ch \in Channels : Encodes(mem[ch])
=============================================================================
