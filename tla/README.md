# twitchspam in TLA+

A verification project kept beside the code of *twitchspam*, a moderation bot for
Twitch channels written in Go. It models the parts of the bot whose correctness
depends on the order of things: handlers that run at once over shared maps,
timers that cannot be recalled, derived data that has to follow its source, saves
that stop half-way. TLC checks the models on small instances; what it checks of
safety is also proved, with TLAPS, for every value of the constants.

Paths below are relative to `src/internal/app/` unless they start with `src/`.

1. [The system](#1-the-system)
2. [Modules](#2-modules)
3. [Runs](#3-runs)
4. [Proofs](#4-proofs)
5. [Where the code does not do what it says](#5-where-the-code-does-not-do-what-it-says)
6. [What is not modelled, and the plan](#6-what-is-not-modelled-and-the-plan)

## 1. The system

One process serves several channels. For each channel start-up
(`src/internal/pkg/app/app.go`) makes a `Stream` and a `Message` and registers them
with two connections to Twitch: EventSub, a websocket whose events are handled by a
pool of workers, and IRC. A chat message arrives over EventSub; its worker waits up
to 250 ms for IRC to say whether it is the author's first message and then calls
`Message.Check`, which stores it, runs an admin command (inside
`Manager.Update`), runs a user command, or asks the `Checker` for a verdict and
hands the punishment to the API client. Two messages of one user can be in
`Message.Check` at once; only admin commands are serialised.

| Component | State | Operations | What makes it hard | What makes it correct |
|---|---|---|---|---|
| Configuration manager, `infrastructure/config` | one `Config` in memory, a main file and a file per channel | `Update` = modify, validate, save; start-up load | crash or error between files; modify before validate; `Get` returns the live pointer, and a refreshed token is put into it without lock or save | files always load; "ok" means on disk; all of a change or none |
| Trust manager and commands, `domain/trusts`, `adapters/message/admin/trusts.go` | `roles`, `users` (the config's own maps), `roleMasks`, `trusts` masks | add/del role, trust/untrust, list, rebuild at start | masks are derived data, recomputed piecemeal; saves fail after memory changed | masks follow tables; grants hold; revocations never grant |
| Timing wheel, `infrastructure/timers` | 600 slots × 100 ms, a map of timers each, current position | `AddTimer`, `RemoveTimer`, tick | modular arithmetic, re-arming, deletion after re-arming | each firing one interval after the last; no timer lost |
| Command timers, `adapters/message/admin/commands*.go`, `message.go` | commands with a timer each, entries of the wheel, pending tasks | add/set/del/on/off, start-up, task | the wheel keeps copies with old texts and pointers; nil command panics | off is quiet, on is scheduled |
| First-message waiter, `adapters/platform/twitch/irc/waiter.go` | map from message id to channel | `WaitForIRC`, `NotifyIRC`, `cleanupLoop` | timeout vs. answer, send outside the lock, close by cleanup, duplicate ids | never blocks the reader; every wait ends; no entry leaks |
| Two-level store, `infrastructure/storage/store.go` | per user a cache of entries, both with expiry | `Push`, `Get`, `Update`, `ForEach`, `ClearKey` | check-then-set creation, non-atomic update, expiry at any moment | users of the store, next rows |
| Offence counters, `adapters/message/checker/checker.go` | level per user and kind in the store | read, push 0, punish, bump | concurrent checks, lost updates | no punishment harsher than earned; levels fall only by expiry |
| Antispam, `message.go`, `checker.go` | stored messages of a user, antispam settings, capacity of the store | store, decide, count, clear; settings commands | concurrent checks; settings change between storing and counting; ranges checked twice, by handler and by validation | floods are punished; messages counted once; handlers accept only what validates; the store holds what the limits look back on |
| Antispam pause, `domain/template/spam_pause.go` | flag, end time, one timer per pause | pause, expiry | timers are never stopped; two atomics stored separately | every pause ends |
| Mass ban, `domain/template/nuke.go`, `admin/nuke.go` | current and old run, timer, scans, submitted tasks | start, repeat, cancel, expire, check | expiry callback vs. start; unlocked reads; tasks outliving their run | nobody punished twice; commands end the scan |
| Stream state, `domain/stream`; sync loop, `src/internal/pkg/app/app.go` | live flag, category, start and end of the session | stream events, 30 s loop, `!am game`, `!am cat` | several writers without a common lock, stale answers, lost and late events | the truth is believed in the end; a live stream has a start, no end precedes it |
| Statistics cache, `infrastructure/storage/cache.go`; counts, `domain/stream/stats.go` | counts per session, cache entries that share their maps, file | count, tick, reset, flush, load | unordered flushes to one file; shared maps; crash while writing | nothing is counted twice or ahead of its session; the file catches up |
| EventSub session, `adapters/platform/twitch/event_sub` | session id, channels, `es.mu`, subscriptions at Twitch | connect, welcome, `AddChannel`, subscribe with retries | welcome and `AddChannel` overlap; the lock is held over all retries; cancelled handlers go on | every channel is subscribed under the session in force |
| API client: pool of 300 tasks, user tokens | queue, token per broadcaster | submit, refresh | full queue drops, concurrent refresh, refresh behind the configuration's back | no save is torn by a refresh |
| Mute words, `admin/mword.go`, `domain/template/mword.go`, `options.go` | words and groups in the config, installed rules, cache of verdicts | add, set, delete, group commands, `Update`, `Check` | rules replaced after the cache is cleared; cached maps and option objects are shared | a verdict is one the rules give; exemptions hold |
| Aliases and their trie, `admin/aliases.go`, `domain/template/aliases.go`, `infrastructure/trie` | single aliases, groups, installed trie | add, delete, group commands, deletion of a command, replacement in every message | the trie is derived data; it rewrites the commands that change it | the trie follows the tables; an alias stands for itself only once its group was set to it |
| Banned words, `domain/template/banwords.go` | a trie made at start-up | check | – | (read only) |
| User commands and rate limits, `message/user/user.go`, `admin/commands_limiters.go` | limiter per command, its bucket, the channel's bucket | call, add/set/delete limiter, delete command | buckets made at the first use; moderators change what a running handler reads again | a command answers no more often than its limiter and the race of first calls allow |
| Polls, predictions | one poll, one prediction | commands | several structs share a copied pointer | (section 6) |
| HTTP/OAuth, 7TV, file server, metrics, logging | – | I/O | – | not modelled |

How they interact: admin commands, the first use of a limiter and the OAuth callback
reach the configuration through `Manager.Update`, which runs them under its lock; the
refresh of a user token changes it without. The trust manager aliases two of the
configuration's maps; `Message` keeps one wheel, one message store and one counter
store per channel; the checker and the mass ban share the message store; the mass
ban submits to the API pool; start-up rebuilds masks and wheel from the loaded
configuration.

`PROJECT.json` lists under `hazards`, each at its line, what in this code a test
would hardly reach, and the properties aimed at it.

## 2. Modules

Each module's header says what it abstracts; the map in `PROJECT.json` gives the
lines behind each definition. One action is one critical section of the code: a
whole locked handler where there is a lock, one call of the cache, atomic or channel
where there is none.

| Module | Models | State | Granularity |
|---|---|---|---|
| `Trusts` | `domain/trusts`, trust commands | `roles`, `trusts` (stored), `roleMasks`, `masks` (derived), `disk` | one step per admin command: they run under the manager's lock. A mask is a set of scopes. A failed save leaves `disk` behind. |
| `TimingWheel` | the wheel | `slots`, `currentPos`, `fired` | one step per locked call and per tick |
| `Countdown` | abstract: what a timer user is promised | `countdowns`, `fired` | – |
| `CommandTimers` | commands and their timers, over an instance of `TimingWheel` | `commands`, timer objects, `pending` tasks, `posted`, the wheel's variables | one step per command and word |
| `IRCWaiter` | waiter, notifier, cleanup | `chans`, channel buffers and closed flags, control points | one step per critical section, channel operation or timer |
| `Escalation` | offence counters over the store | outer entry, inner caches, per-worker control point and locals | one step per cache call |
| `SpamPause` | pause | flag, end time, timers, the `Pause` call under way | one step per atomic store or timer event; a component of `AntispamSettings` |
| `Nuke` | mass ban and its scrollback | `nuke`, `oldNuke`, timers, contexts, scans, tasks | locked calls one step; scan one step per message and stage |
| `SpamFlood` | messages of one user through store and spam check | outer entry, inner caches, per-message stage, settings | one step per cache call; the count of `ForEach` is one step, over any order of the stored messages |
| `ConfigManager` | update, validate, save, load; refresh of tokens | `mem`, `disk`, save stage, temporary file, `answer` | one step per file operation. What a channel's settings are, and which are valid, are parameters. |
| `AntispamSettings` | the antispam commands of one channel, over `ConfigManager` and `SpamPause` | theirs, the store's `capacity`, `tuned` | a command is one step up to the save, one that pauses one step per store of the pause; the rest is the manager's |
| `SessionStats` | session statistics and their cache | `stats`, `cache`, `flush` (a bag of writers), `file` | one step per call of the cache, and per encoding, opening and writing of a flush |
| `Aliases` | alias commands and the trie | `aliases`, `groups`, `installed` | one step per command, with the rewriting of its own text. The trie is the function it computes. |
| `CommandLimits` | calls of commands under their limiters | `limit`, `user`, handlers' control points, `answers` | one step per read of the configuration, bucket made, bucket asked |
| `CommandTable` | composition of the last two | theirs | deleting a command takes its aliases, a restart reloads both |
| `Mwords` | mute words | `singles`, `groups` (stored), `rules`, `cache`, the maps checks hold, per-check control point | a command up to the installation of its rules is one step (it holds the manager's lock), the installation another; a check is one step per read of the cache, pass over the rules, write. A text is the set of names it contains. |
| `EventSub` | EventSub session | connection, `sessionID`, `channels`, `mu`, control points of welcomes and `AddChannel`s, `subs` | one step per locked section, atomic and request |
| `StreamState` | stream state | `isLive`, `category`, `start`, `end`, `onceStart`; Twitch's `now` and `game` | one step per locked or atomic write |

`CommandTimers` composes the wheel with the commands that drive it,
`AntispamSettings` the settings commands with the configuration, the pause and the
store they act on, `CommandTable` aliases and limiters; `SpamFlood` and
`Escalation` are two users of the two-level store, whose creation race, expiry and
non-atomic update appear in both at the granularity of cache calls. `StreamState`
takes its notifications from a set from which any may be lost, which stands for
`EventSub` between two connections: composing the two would multiply their states
and add no behaviour of the stream. `MC*` modules
give constants to TLC.

History variables are few and marked as such: the wheel's `elapsed`, `quiet` in
`CommandTimers`, `offences` and
`crowded` in `Escalation`, `text`, `missed`, `forgotten` and `punished` in
`SpamFlood`, `acted`, `faded`, `stopped` in `Nuke`, `before`,
`dirty` and `refreshed` in `ConfigManager`, `tuned` in `AntispamSettings`, `session` and
`happened` in `SessionStats`, `stale` in `Aliases`, `answers` in `CommandLimits`, `overlap` and `stale` in `Mwords`. Operators marked "Mutant" are plausible bugs in the
definition that follows them; substituting one must break the property that
`PROJECT.json` pairs it with. They are used nowhere else.

## 3. Runs

Twelve runs, all of which pass; states are distinct states.

| Run | Instance | States | Shows |
|---|---|---|---|
| `trusts` | 1 user, a channel role and a global role, 2 scopes, saves may fail | 518 k | `MasksCoherent`: each mask is what the stored tables give; `RightsAccountedFor`: grants are in force, and rights beyond the tables come only from deleted roles; `RevocationsNeverGrant`; `RestartFollowsFile` |
| `command_timers` | 3 slots, two commands, 2 timer objects, intervals 1–2, 1 pending task | 95 k | `NeverOverdue`; `OffIsQuiet`; `OnIsScheduled`; `ImplementsCountdown`: commands, crashes, restarts and ticks implement `Countdown` |
| `irc_waiter` | 3 waiters, 2 message ids (two waiters share one), cleanup at any time | 68 k | `FirstIsGenuine`: "first" is reported only if IRC said so; `NotifierNeverBlocks`; `NoChannelLeak`; `EveryWaitEnds` |
| `escalation` | 2 concurrent checks, 3 inner caches, 3 offences | 479 k | `NeverHarsherThanEarned`; `LevelOnlyForgotten` |
| `nuke` | 2 runs, 2 definitions, 2 messages | 1.4 M | `PunishedOnce`; `CommandsEndScrollback` |
| `spam_flood` | 4 messages of 2 classes, 2 at once, limit 2, gap 2, pause switching on and off, one expiry | 2.1 M | `CountedOnce`; `FloodPunished` |
| `antispam_settings` | a channel file and the main file, 2 token states, values at the ends of the ranges, 2 pauses of up to 1 tick, errors, crashes and refreshes anywhere | 285 k | `DiskLoads`; `SuccessIsOnDisk`; `AllOrNothing`; `HandlersKeepValid`: commands never put a value into memory that validation refuses, but for a length without its punishment; `StoreCoversLimits`; `PauseEnds` |
| `mwords` | 2 names, 2 groups (one of them set up), 1 command, 2 concurrent checks of 3 kinds of message | 1.1 M | `ExemptionsHold`: no message is judged by a rule for first messages, or one that spares VIPs, unless it is one, or none; `StaleOnlyByOverlap`: a cached verdict is one the installed rules give, unless a check that overlapped a command wrote it |
| `event_sub` | 2 channels, 2 event types, 2 connections, 2 tries, 2 requests that fail | 138 k | `NoChannelForgotten`: once the welcome is handled, every added channel is subscribed; `SubscribedInTheEnd` |
| `session_stats` | 1 channel, 1 session, 2 counts, 3 flushes under way, 1 crash | 215 k | `NothingInvented`: neither the program nor the file counts a thing twice or ahead of its session; `FileCatchesUp` |
| `command_table` | 1 command, 2 names, a list, a group, a global alias, 2 concurrent messages | 34 k | `TrieFollowsTables`: the trie is what the tables say but after the two cases of section 5; `SelfAliasOnlyBySet`: an alias comes to stand for itself only by setting a group's original to one of the group's names; `LimitHolds` |
| `stream_state` | 2 workers, 2 categories and none, 3 changes of the stream, 1 of the category or command; the id kept by start-up or lost | 545 k | `StreamTimes`; `CatchesUp`: the bot comes to believe the truth for good, of a channel whose id was kept |

The type invariant of a module is a run's invariant of its own where it is proved
or belongs to a composition, and otherwise the first conjunct of one of the
properties above. The number of messages, commands or flushes a run names is a bound
on how many are there at once, or over the run, as the module's constants say.

**Bounds and why they are enough.**

- *Trusts*: users meet only through the roles they share; a second user adds no
  interaction the theorems do not cover. One channel
  role and one global role of each kind cover the merge at start-up; two scopes
  separate "some scopes" from "all scopes".
- *Wheel*: `MaxElapsed` caps the history counter above the longest interval, beyond
  which `NeverOverdue` would already be broken. Two commands meet in one slot, where
  a tick handles them together and one may be removed while the other's task is
  pending. The intervals are shorter than a turn, as the refinement needs; for longer
  ones `NeverOverdue` and `OffIsQuiet` are proved.
- *Waiters*: two on one id race each other and the notifier; a third, on another id,
  lets cleanup and a notification meet unrelated entries.
- *Escalation*: three inner caches are one more than two workers can hold at once,
  so a fresh one is always available; levels and ages are capped by `MaxOffences`,
  `MaxAge`.
- *Nuke*: two runs are the current and the previous one, the only two the code keeps.
- *Flood*: four messages are one more than the most that may stay unpunished with
  two workers (`Tolerated` = 3), so the property's conclusion is reached and the limit is crossed;
  `MaxForgotten` allows one expiry of a message or of the user's store. More messages and
  workers are covered by the theorems.
- *Mute words*: two names let a rule that exempts, or one for first messages, compete
  with another over one text; the three messages share a key (first and later) or
  have their own (VIP). One command is enough for rules to be replaced under two
  checks, and the settings it starts from already hold a group and options.
- *EventSub*: with two connections a welcome, its cancelled predecessor and two
  `AddChannel`s overlap; two failures reach the tries of one event, so the properties'
  provision is needed and tested.
- *Stream*: three changes let a stale answer, a late notification and the truth all
  differ; two workers let the later notification be handled first.
- *Settings*: a channel file and the main file give a save a first and a last file,
  between which it can fail, die, or be overtaken by a refreshed token; that more
  channels add nothing is proved. The values are those at which the ranges end, for
  one field of each kind; the old file (no maximum number of emotes) reaches the one
  refusal there is, and not a number the one setting that cannot be saved. Two timers
  let the one of an earlier pause run out during a later pause.
- *Statistics*: three writers of one file are an older, a current and a newer
  snapshot; the session begins before, during or after the time the process is down.
- *Aliases, limiters*: two names, each of which can be alias and original, give
  chains, swaps and self-reference; the list repeats a name before it gives another,
  so that it is refused in the middle, as single aliases for the repetition, as a
  group's for the last. One original is written without its "!", which is how a
  command escapes the rewriting of what it names. Two handlers race for a bucket of
  one request.

`CHECK_DEADLOCK FALSE` appears where the bounds make the model stop: all waiters
have left, all offences committed, all runs used, all messages handled, all
channels subscribed.

**Fairness.** Five modules state liveness. `IRCWaiter` assumes weak fairness of
`Timeout`, `Leave` and `NotifySend`: the Go runtime fires an expired timer and runs
a goroutine that is not blocked; nothing is assumed of answers, notifications or
cleanup, which may never come. `AntispamSettings` assumes weak fairness of the clock
(`PauseTick`), of the rest of a command that has begun to pause (`TimePause`,
`EndPause`), and of an expired timer's callback (`PauseStep`); none of new commands,
saves or restarts. `SessionStats` assumes weak fairness of the steps of a flush and,
strongly, of the ticker and of a reset that has been notified, which the bound on
flushes, not the code, can keep from being possible. `EventSub` assumes that a new connection is dialled
after a loss, that goroutines go on and requests are answered one way or another, and,
strongly, that each goroutine waiting for `es.mu` gets it: a Go mutex goes into
starvation mode after a millisecond and hands itself over in turn. Nothing is assumed
of losses and failures, which the bounds end. `StreamState` assumes that workers and
the loop go on and that Twitch answers the loop again and again (strong fairness of
the step that applies an answer, which any single failure may pre-empt); nothing of
notifications and commands. The other modules are checked for safety only.

## 4. Proofs

Eight modules hold theorems, each beside one component or composition or two that
belong together. All hold for any number of users, roles, scopes, slots, commands,
waiters, workers, caches, runs, messages, channels, tokens, inputs, words, names, lists,
handlers and connections, under the named assumptions of the modules (`TrustsAssumption`, `WheelAssumption`, ...), which
TLC evaluates in the runs: they say that numbers are numbers, that markers such as
`None` are no ordinary values, and that there is an interval, a definition of a mass
ban, a try of a request to begin with. No module with a theorem reaches a recursive operator. Names in the
second column with a dagger state no property of a run.

| Module | Theorems | Argument |
|---|---|---|
| `Trusts_proofs` | `TypeCorrect`, `MasksAlwaysCoherent`, `RoleMasksAlwaysCoherent`†, `RightsAlwaysAccountedFor`, `RevocationsOnlyRevoke`, `RestartAlwaysFollowsFile` | Type correctness is inductive. Coherence of user masks and of role masks is inductive over it, one step per command: recomputing all masks, or those of the users touched, restores it. `RightsAlwaysAccountedFor` follows from coherence alone (`CoherentTables`). The action properties rest on both: a user's mask grows with the tables it is made from, and a command that takes rights away shrinks them; a restart recomputes from the file. |
| `CommandTimers_proofs`, the wheel | `WheelTypeCorrect`†, `NeverLate`, `AlwaysPlaced`†, `AlwaysOnTime`†, `TickNeverLoses`†, `WheelImplementsCountdown`† | `FiresOnTime` is not inductive: it looks only at the slot visited next. The strengthening `PlacedInv` says where every entry is: in the slot `interval - elapsed` ticks ahead, with no turn left to wait. It needs `ShortIntervals`, every interval shorter than a turn, without which it is false (section 5). For refinement, the distance from the current position to a slot is the time left (`LeftRange`, `LeftAfter`); `AddIsAdd`, `RemoveIsRemove` and `TickIsTick` map each action to its abstract one. `NeverLate` needs no such restriction: `EarlyInv`, that the turns left and the distance to a slot never add up to more than the time left, holds for every interval, since a timer re-armed without its rounds is only ever early. |
| `CommandTimers_proofs`, the commands | `CommandsNeverLate`, `OffIsAlwaysQuiet`, `OnIsAlwaysScheduled`, `CommandsImplementCountdown` | The wheel's invariants are carried over by one fact about every step (`OldOrNew`): what is in the wheel after it was there before, or is as `AddTimer` makes it, or the step is a tick. `OffIsQuiet` is inductive only with `Owned`, that no two commands share a timer object: with it every command but the tick touches one command (`OneCommand`). `OnInv`, of what is on, is kept under the same condition. The last two need `ShortIntervals`: an interval of a turn loses its timer. An admin command registers, removes or replaces a timer, each a step of `Countdown` (`ReplaceIsReplace`), and a start-up is its restart (`StartUpIsRestart`). |
| `Punishments_proofs`, the levels | `TypeCorrect`, `NeverHarsher`, `LevelIsOnlyForgotten` | A worker's count is only as good as the cell it read, and the cell as the worker that wrote it; the invariant bounds all three (stored values, counts held, values about to be written) by the offences committed, so no interleaving of lookups, expiries and writes can push one above. For the last, `CalmInv`: until two checks have overlapped, one worker at most is busy (`Alone`), and what it has seen still holds, but for what time has made be forgotten (`SeenStillHolds`). |
| `AntispamSettings_proofs`, the manager | `SaveInvariant`†, `DiskAlwaysLoads`, `SuccessAlwaysOnDisk`, `AlwaysAllOrNothing` | `SaveInv`: during a save memory is valid, the files not in `todo` already hold it, the main file comes last, at most one file differs from what was on disk before, and the temporary file is what memory holds or held before a token was refreshed. What settings are and which are valid stays a parameter. |
| `AntispamSettings_proofs`, the composition | `SettingsSaveInvariant`†, `ImplementsManager`†, `SettingsAlwaysLoad`, `SettingsSuccessOnDisk`, `SettingsAllOrNothing`, `SettingsTypes`, `HandlersAlwaysKeepValid`, `StoreAlwaysCovers` | Every command is an update of the manager (`StepsAreConfigSteps`), because a value a handler lets through is one a setting can have (`ParsedIsSetting`); so the composition implements `ConfigSpec`, and what is proved of it follows. The last three open what settings are, field by field and handler by handler; they assume `Validation`, that the manager's parameter `Accepts` is the code's validation `ValidSpam`, as the run sets it. `RangeInv` keeps memory within the ranges of validation, which leaves a length without its punishment as the one ground for a refusal; `StoreInv` adds that the capacity, which goes up and down with the limits, stays at the initial one at least. |
| `CommandTable_proofs` | `LimitTypes`†, `CommandTableTypes`, `LimitHeld`, `SelfAliasOnlyBySetting`, `TrieFollows` | The number of answers says nothing about buckets still to be made. Each bucket is therefore charged to the limiter or to the handler that made it: answers given and requests left in the present bucket never exceed an allowance, less one share for every handler that still holds a limiter without a bucket and will make one (`Installing`); a limiter set anew restarts the account, as `answers` does. `SelfAliasOnlyBySet` rests on `DifferInv`: single aliases differ from what they stand for, because the original is looked up before the names are compared with it (`AcceptedDiffers`), and what the trie replaces by itself is on record in a group or a global alias; a step that does not make the trie anew takes nothing from that record (`SelfStep`, `TrieStaysOnRecord`). `TrieFollowsTables` is inductive as it stands: a step installs the tables anew, leaves both alone, or is one of the two on record (`Follows`). That the tables hold phrases is kept although they rewrite the commands that fill them: replacing a phrase in a sequence of words by a phrase gives words (`ReplaceSays`), and a command whose name or original has become empty does not match its pattern. |
| `EventSub_proofs`, the session | `ChannelsRemembered` | The property speaks of the end; the invariant says, at any moment after a welcome was sent, that a channel is subscribed, or owed by its own `AddChannel` (`Owed`), or awaited from the welcome handler (`Awaited`), and that a run of subscriptions under the session in force has done every type before the one it is at (`Progress`), which it has tried no more often than requests failed. `Sequential` orders the connections, `JobsOwned` and `Registered` tie every run to its goroutine. |
| `EventSub_proofs`, the waiter | `FirstAlwaysGenuine`, `NotifierNeverWaits`, `NoChannelEverLeaks` | The three are proved together with what a channel holds (`HoldsReport`: what IRC said of its own message) and what the notifier carries between looking a channel up and sending (`SendsReport`: a report, and a channel with room, as a message is looked up once and only the notifier fills a channel). |
| `Punishments_proofs`, the mass ban | `AlwaysPunishedOnce`, `CommandsAlwaysEndScrollback` | What is about to be punished, or has been, is marked as visited (`MarkedFirst`), so what a run punished in its time is neither among the fresh messages of the run current by now nor among its tasks (`PassedByNext`), and `ByOneRun` follows step by step. A run that is over was ended by a command, which cancels its context, or by its timer (`EndedSomehow`), which gives the second theorem. |
| `Stream_proofs`, the state | `StreamTimesKept` | `StreamTimes` speaks of a live stream only; `StreamInv` adds what a notification still to be handled says of the stream (`Told`), that no time recorded lies ahead of the clock (`TimesPast`), and that the one start-up sets the start before the flag (`OnceSet`, `StartAhead`). |
| `Stream_proofs`, the statistics | `NothingEverInvented` | Nothing is invented in the file if nothing is in the snapshots its writers hold, and in those if nothing is in the cache, whose entries share their maps with the program: `StatsInv` says of the cache, of every flush under way and of the file that each count is within the session's (`CacheSound`, `FlushSound`, `FileSound`), for a bag of writers of any size. |
| `Checker_proofs`, mute words | `MwordsInvariant`†, `MwordTypes`, `ExemptionsAlwaysHold`, `StaleOnlyAfterOverlap` | What folding over words and groups builds is shown to be rules by a lemma about functions defined from their value before (`Recursion`, `Unrolled`). `MwordsInv`: the installed rules are those the settings give unless a command is about to install them (`WhileInstalling`); each check that holds a map of verdicts holds one (`OneMap`, `MapsHold`); and a map that no check overlapping a command has written to holds verdicts of the installed rules (`Fresh`). |
| `Checker_proofs`, repeated messages | `EachPunishmentIsPaidFor`, `FloodsArePunished` | Over any order of the stored messages, no more are counted than resemble the new one, and all of them if fewer than `MinGap` others lie between (`CountSpamCounts`). For the first theorem each punishment is charged to the messages it counted (`Charged`): a message still in the cache only to handlers about to clear it, one in a replaced cache to at most as many as there are handlers, those included that hold the cache; counting the charges in two ways (`DoubleCounting`) gives the bound. For the second, `FewLost` bounds what has been lost in replaced caches by the number of caches made, which is at most the number of handlers that are not making one (`Made`): a cache that is made costs the fewer than `Limit` messages counted in the one it replaces and those of the handlers at work (`CacheMade`). |

Looking for the invariant of `FloodPunished` with one message more than the run has
showed that `Tolerated` was stated too low: messages lost with a replaced cache, before
the one in force expired, had been left out of it.

**Stays with TLC.**

- Liveness under fairness (`EveryWaitEnds`, `PauseEnds`, `SubscribedInTheEnd`,
  `FileCatchesUp`, `CatchesUp`), which the proof system does not do.
- The values of recursive definitions at more than the arguments a proof asks for:
  no theorem says what `ForEach` or the folds of `Mwords` return in general, only
  what the invariants need of it.

An induction over data, which the library's theorems cannot be used for, is done where
it is needed over sets of numbers, by well-foundedness (`SetInduction`).

## 5. Where the code does not do what it says

The following properties are stated in the modules, with a comment that the code
breaks them, and are in no run. To see a trace, put the property, in place of those there, into a copy of
the `.cfg` of the module, or of the module that composes it (`MCCommandTimers` for
`TimingWheel`, `MCAntispamSettings` for `ConfigManager` and `SpamPause`, `MCCommandTable` for
`Aliases` and `CommandLimits`), without its `SYMMETRY` and with the constants given here.

| Module, property | Constants | What happens |
|---|---|---|
| `Trusts`, `MasksFollowConfig` | – | `!am role del` removes the role from the map (`admin/trusts.go:126`) that `DeleteRole` then looks it up in (`domain/trusts/trusts.go:121`): nothing is revoked until a restart |
| `TimingWheel`, `FiresOnTime` | `Intervals = {4}`, `MaxElapsed = 16` | a timer is re-armed without its rounds (`infrastructure/timers/timers.go:90`): intervals above 60 s count modulo 60 s from the second firing on; the command accepts up to 86400 s (`admin/commands_timers.go:43`) |
| `SpamFlood`, `VipIsChecked` | `IsVip = TRUE`, `Off = {"default"}`, `Changing = {}`, `Mode = 1` | whether a message counts is decided by the default settings whoever its sender is (`message.go:85`): with them off, the VIP antispam does nothing |
| `TimingWheel`, `TickKeepsTimers` | `Intervals = {3}` | an interval of exactly one turn (60 s) is re-armed into the visited slot and deleted from it: the timer fires once (`timers.go:90-93`) |
| `CommandTimers`, `PostsAreSpaced` | – | registering a timer again leaves the older copy in its slot |
| `IRCWaiter`, `AnsweredMeansReported` | – | cleanup drains an answer, or closes the channel: the waiter reports an answer nobody gave, or misses the one given (`waiter.go:22`) |
| `Escalation`, `ForgottenInTime` | `Kinds = {"spam_emote"}`, `Default = 3`, `Emotes = 1`; or `Kinds = {"mword"}` | emote levels use the default reset time; an update after the deadline leaves an entry without one |
| `Escalation`, `RememberedLongEnough` | `IdleLimit = 2`, `Default = 4` | five idle minutes forget every level |
| `SpamPause`, `PauseRunsItsCourse`, `PauseIsReported` | – | an older timer ends a later pause; flag and end time disagree (`admin/main.go:96`) |
| `Nuke`, `PunishedForOwnWords`, `LastsItsDuration`, `StopStops`, `ScrollbackFindsAll` | – | a scan checks against whatever run is current; a fired timer ends the next run; cancelling stops neither an expired run's scan nor the repeat; marked messages are passed over (`admin/nuke.go:28`, `:190`) |
| `SpamFlood`, `LimitIsEnough` | – | two stores made at once split the flood |
| `SpamFlood`, `ModeZeroIsAlways` | `Mode = 0` | validation says 0 is "always" (`infrastructure/config/validate.go:51`); the checker treats it as "online" (`checker.go:288`) |
| `SpamFlood`, `OrderIsArrival` | – | `ForEach` meets messages in hash order, so which gaps count is accidental (`store.go:131`) |
| `ConfigManager`, `MemoryIsEncodable` | – | `!am sim NaN` is within every range (`domain/template/parse.go:27`, `validate.go`) and cannot be encoded: every later save, of any channel, fails until it is changed |
| `ConfigManager`, `EverythingIsOnDisk` | – | a refreshed token is put into memory alone (`api_usertokens.go:74`): a restart before the next save finds the spent one, whose refusal deletes the authorisation (line 112) |
| `AntispamSettings`, `StoreCoversFromTheStart` | – | a start makes a store of 50 messages (`message.go:55`) whatever the limits it reads: a flood spread over more is not seen until a limit is set again |
| `SessionStats`, `FileLoads` | – | a crash in the middle of a flush leaves a file that cannot be read (`infrastructure/storage/cache.go:96`): the statistics of all channels are lost |
| `SessionStats`, `OwnSession` | `MaxSessions = 2` | a stream that begins while the bot is down inherits the counts of the one before; not so with `MaxCrashes = 0` |
| `SessionStats`, `WarnsOwnSession` | `MaxSessions = 2` | `Reset` keeps the counts of warnings (`stats.go:115-142`), with or without crashes |
| `Aliases`, `TrieIsTables` | – | a refused list (`admin/aliases.go:85`) and the deletion of a command (`admin/commands.go:111`) change the tables and leave the trie |
| `Aliases`, `AliasesCanBeDeleted` | – | `!am al del <alias>` is rewritten first and asks for what the alias stands for |
| `Aliases`, `NoSelfAlias` | – | `!am alg set` compares nothing (`admin/aliases.go:217`): after `create g !c` and `add g !d`, `set g d` makes `!d` stand for itself |
| `Aliases`, `NoChains` | `a` added to `MCNames`, `MCGlobal == << >>` | what an alias stands for becomes an alias later (`admin/aliases.go:71`); only one of the two is replaced |
| `CommandLimits`, `LimitIsExact` | – | two first calls make two buckets (`user/user.go:345`) |
| `CommandLimits`, `NeverPanics` | – | a command, or its limiter, deleted between two reads is dereferenced (`user/user.go:347`) |
| `ConfigManager`, `MemoryIsValid` | – | a refused change stays in memory and makes every later update fail until corrected (`config.go:73`), in a channel whose file never had a maximum length |
| `Mwords`, `FirstRuleNotMasked` | – | a verdict cached for ordinary messages hides a rule for first ones (`domain/template/mword.go:144-187`) |
| `Mwords`, `VerdictFollowsStream` | – | the cache key does not hold the stream's state: rules for on air serve off air while the verdict is cached (`mword.go:240`) |
| `Mwords`, `GroupOptionsAreGlobal` | – | `Update` merges the options of a group's words into the group's own (`mword.go:93`) |
| `Mwords`, `RestartKeepsRules` | – | of two options set by one command, which share a pointer, `Update` keeps one until a restart reads them as two (`mword.go:73`, `options.go:132-213`) |
| `StreamState`, `GameNameStays` | – | the loop takes back, within 30 s, the name `!am game` gave (`admin/main.go:81`) |
| `StreamState`, `EveryChannelCatchesUp` | – | start-up goroutines append to one slice without a lock (`app.go:107`): a channel whose id is lost is set off air by every round of the loop, even after its `stream.online` |
| `StreamState`, `EndSurvives` | – | the first round of the loop, applying a stale answer, sets a recorded end back to the start (`stats.go:144`) |

Seen while modelling, and abstracted away: `!am poll` always answers that the syntax
is wrong (`admin/polls.go:31` expects 4 matches of a pattern that has 5), the commands
that end and repeat a poll hold a pointer that `CreatePoll` replaces for itself only, and
`!am pred` is always told to close the previous prediction first, as the empty one of
the start has no status (`admin/predictions.go:23`); regular expressions added as
exceptions are off (`admin/except.go:83`), an exception for emotes inherits the
punishments of the default settings (line 184), and a refused value leaves the word's
options changed (line 220); an alias with a capital letter matches nothing, as
messages are lowered and tables are not; `!am alg del` does not trim the names of a
list; "!am" itself can become an alias, after which the commands on aliases are not
reached; a command called in capitals is found in lower case and its limiter, when it has no
bucket yet, looked up as written, a nil dereference (`user/user.go:268`, `:347`); a mute word whose punishment is "none"
still raises its author's offence level (`checker.go:241`); `!am mwg add` looks for
duplicates among the single words only, and `!am mw del` cannot delete a regular
expression; `Reset` clears neither the warnings counted nor what `SetCategory`
compares with, so the history of a new session lacks its first category
(`stats.go:115`); `session_reconnect` is answered through a context value nobody sets
(`event_sub.go:153`), and a cancelled welcome holds `es.mu` through the pauses
between its tries.

## 6. What is not modelled, and the plan

Not modelled for good: the text processing (normalisation, homoglyphs, placeholders,
regular expressions), HTTP, 7TV, file server, metrics, logging; banned words, a list
that is set at start-up and only read; polls and predictions, whose commands refuse
every input (section 5), so that there is no life cycle to model. Left open inside the
modelled components: message counts and colours of command timers, similarity of
texts (a class is given), emotes, exceptions and word length in the spam check, pool
overflow (a task may stay pending for ever), validation's rules on anything but the
antispam, the options of mute words that only concern how a text is matched, viewer
numbers and the history of categories.

Hazards without a property have a note in `PROJECT.json`. For most the code breaks
what one would want to hold, and the property is in section 5 instead; for the others
the module is the plan's.

Order of what comes next, by weight:

1. `TokenPool`: two refreshes of one token, and the bounded pool; compose with `Nuke`
   for the tasks a full queue drops.
2. The checker's order of verdicts, exceptions and emotes; `CheckAutomod`'s delay.
3. `Nuke` and `SpamFlood` over one message store.

Runs are merged as modules are composed, so that each still answers a question of its own.
