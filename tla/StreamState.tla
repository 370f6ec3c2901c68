---------------------------- MODULE StreamState ----------------------------
(***************************************************************************)
(* What the bot believes of one channel's stream (domain/stream/stream.go, *)
(* the session times of stats.go) and its writers: notifications handled   *)
(* by concurrent EventSub workers (event_sub.go:226-265), the loop that    *)
(* asks Twitch every 30 seconds (internal/pkg/app/app.go:122-165) and the  *)
(* commands "!am game" and "!am cat" (adapters/message/admin/main.go).     *)
(*                                                                         *)
(* Time is the number of times the stream has gone on or off air; the      *)
(* stream is on air when it is odd, and started at that time.              *)
(***************************************************************************)
EXTENDS Naturals

CONSTANTS
    Workers,     \* EventSub workers
    Games,       \* names of categories
    Demos,       \* the category "Games + Demos"
    MaxTime,     \* model bound on how often the stream goes on and off air
    MaxChanges   \* model bound on the category's changes and the commands

ASSUME StreamStateAssumption == Demos \in Games /\ Games \cap {"", "no command"} = {}
ASSUME StreamBounds          == MaxTime \in Nat \ {0} /\ MaxChanges \in Nat

VARIABLES
    listed,                \* the channel's id is among those the loop asks about
    now, game,             \* Twitch: time, and the stream's category
    notices,               \* notifications sent and not yet handled
    handling,              \* worker -> the notification it handles, and how far
    isLive, category,      \* the fields of Stream
    onceStart,             \* onceStart has been used
    start, end,            \* StartStreamTime and EndStreamTime, 0 for unset
    sync,                  \* the loop: at which step, with which answer
    command,               \* the category "!am cat" has sent to Twitch
    changes                \* model bound

streamVars == <<listed, now, game, notices, handling, isLive, category, onceStart,
                start, end, sync, command, changes>>

OnAir == now % 2 = 1

\* The category of a stream that has none, as "!am cat -" leaves it.
Nothing    == ""
Categories == Games \cup {Nothing}

NoCommand == "no command"

Idle == [at |-> "idle"]

Notice == [type : {"online", "offline"}] \cup [type : {"update"}, game : Categories]
Answer == [live : BOOLEAN, game : Categories, started : 0..MaxTime]

(* The goroutines that start the channels append to one slice without a    *)
(* lock, so the append of one may be lost to another's (app.go:107).       *)
AppendID == listed \in BOOLEAN

StreamInit ==
    /\ AppendID
    /\ now \in {0, 1}
    /\ game \in Games
    /\ notices = {}
    /\ handling = [w \in Workers |-> Idle]
    /\ isLive = FALSE
    /\ category = Nothing
    /\ onceStart = FALSE
    /\ start = 0 /\ end = 0
    /\ sync = Idle
    /\ command = NoCommand
    /\ changes = 0
----------------------------------------------------------------------------
(* Twitch.  Every change is notified, to those who listen.                 *)
Notified(notice) == notices' \in {notices, notices \cup {notice}}

GoOnOrOffAir ==
    /\ now < MaxTime
    /\ now' = now + 1
    /\ Notified([type |-> IF OnAir THEN "offline" ELSE "online"])
    /\ UNCHANGED <<listed, game, handling, isLive, category, onceStart, start, end, sync,
                   command, changes>>

ChangeGame(g) ==
    /\ changes < MaxChanges
    /\ changes' = changes + 1
    /\ game' = g
    /\ Notified([type |-> "update", game |-> g])
    /\ UNCHANGED <<listed, now, handling, isLive, category, onceStart, start, end,
                   sync, command>>

LoseNotice ==
    /\ \E notice \in notices : notices' = notices \ {notice}
    /\ UNCHANGED <<listed, now, game, handling, isLive, category, onceStart, start, end,
                   sync, command, changes>>
----------------------------------------------------------------------------
(* Stream and Stats.                                                       *)
SetStreamTimes(t) == start' = t /\ end' = t

\* Mutant: only the end is reset.
ResetEnd == end' = 0 /\ UNCHANGED start

ResetTimes == start' = 0 /\ end' = 0

(* handleMessage.                                                          *)
Handling(w, type, at) ==
    /\ handling[w].at = at
    /\ handling[w].notice.type = type

Advance(w, at) == handling' = [handling EXCEPT ![w].at = at]
Finish(w)      == handling' = [handling EXCEPT ![w] = Idle]

TakeNotice(w) ==
    /\ handling[w] = Idle
    /\ \E notice \in notices :
         /\ notices' = notices \ {notice}
         /\ handling' = [handling EXCEPT ![w] = [notice |-> notice, at |-> "live"]]
    /\ UNCHANGED <<listed, now, game, isLive, category, onceStart, start, end, sync,
                   command, changes>>

SetLive(w) ==
    /\ \E type \in {"online", "offline"} :
         /\ Handling(w, type, "live")
         /\ isLive' = (type = "online")
    /\ Advance(w, "stats")
    /\ UNCHANGED <<listed, now, game, notices, category, onceStart, start, end, sync,
                   command, changes>>

OnlineReset(w) ==
    /\ Handling(w, "online", "stats")
    /\ ResetTimes
    /\ Advance(w, "start")
    /\ UNCHANGED <<listed, now, game, notices, isLive, category, onceStart, sync,
                   command, changes>>

OnlineStart(w) ==
    /\ Handling(w, "online", "start")
    /\ SetStreamTimes(now)
    /\ Finish(w)
    /\ UNCHANGED <<listed, now, game, notices, isLive, category, onceStart, sync,
                   command, changes>>

OfflineEnd(w) ==
    /\ Handling(w, "offline", "stats")
    /\ end' = now
    /\ Finish(w)
    /\ UNCHANGED <<listed, now, game, notices, isLive, category, onceStart, start,
                   sync, command, changes>>

UpdateCategory(w) ==
    /\ Handling(w, "update", "live")
    /\ category' = handling[w].notice.game
    /\ Finish(w)
    /\ UNCHANGED <<listed, now, game, notices, isLive, onceStart, start, end, sync,
                   command, changes>>

Handle(w) ==
    TakeNotice(w) \/ SetLive(w) \/ OnlineReset(w) \/ OnlineStart(w)
      \/ OfflineEnd(w) \/ UpdateCategory(w)
----------------------------------------------------------------------------
(* syncLiveStreams.  A channel it does not ask about is not in the answer, *)
(* and so is off air for it.                                               *)
SyncAsk ==
    /\ sync.at = "idle"
    /\ sync' = [at |-> "answered",
                answer |-> [live |-> listed /\ OnAir, game |-> game, started |-> now]]
    /\ UNCHANGED <<listed, now, game, notices, handling, isLive, category, onceStart,
                   start, end, command, changes>>

\* GetLiveStreams fails.
SyncFail ==
    /\ sync.at = "answered"
    /\ sync' = Idle
    /\ UNCHANGED <<listed, now, game, notices, handling, isLive, category, onceStart,
                   start, end, command, changes>>

\* Mutant: a channel missing from the answer is left as it is.
SyncLiveOnly ==
    /\ sync.at = "answered"
    /\ isLive' = (isLive \/ sync.answer.live)
    /\ sync' = IF sync.answer.live THEN [sync EXCEPT !.at = "live"] ELSE Idle
    /\ UNCHANGED <<listed, now, game, notices, handling, category, onceStart, start,
                   end, command, changes>>

SyncLive ==
    /\ sync.at = "answered"
    /\ isLive' = sync.answer.live
    /\ sync' = IF sync.answer.live THEN [sync EXCEPT !.at = "live"] ELSE Idle
    /\ UNCHANGED <<listed, now, game, notices, handling, category, onceStart, start,
                   end, command, changes>>

SyncCategory ==
    /\ sync.at = "live"
    /\ category' = sync.answer.game
    /\ sync' = [sync EXCEPT !.at = "once"]
    /\ UNCHANGED <<listed, now, game, notices, handling, isLive, onceStart, start, end,
                   command, changes>>

\* s.OnceStart().Do(...)
SyncTimes ==
    /\ sync.at = "once"
    /\ IF onceStart THEN UNCHANGED <<start, end>> ELSE SetStreamTimes(sync.answer.started)
    /\ onceStart' = TRUE
    /\ sync' = Idle
    /\ UNCHANGED <<listed, now, game, notices, handling, isLive, category, command, changes>>

Sync == SyncAsk \/ SyncLive \/ SyncCategory \/ SyncTimes
----------------------------------------------------------------------------
\* "!am game": another name for a stream in the category Games + Demos.
GameCommand(g) ==
    /\ changes < MaxChanges
    /\ changes' = changes + 1
    /\ isLive
    /\ category = Demos
    /\ category' = g
    /\ UNCHANGED <<listed, now, game, notices, handling, isLive, onceStart, start, end,
                   sync, command>>

\* "!am cat": to Twitch first, which notifies the change, then to the stream.
\* (The fallback to Games + Demos only tells Twitch: it is a ChangeGame.)
SendCategory(g) ==
    /\ command = NoCommand
    /\ changes < MaxChanges
    /\ changes' = changes + 1
    /\ game' = g
    /\ Notified([type |-> "update", game |-> g])
    /\ command' = g
    /\ UNCHANGED <<listed, now, handling, isLive, category, onceStart, start, end, sync>>

CategorySent ==
    /\ command # NoCommand
    /\ category' = command
    /\ command' = NoCommand
    /\ UNCHANGED <<listed, now, game, notices, handling, isLive, onceStart, start, end,
                   sync, changes>>

StreamNext ==
    \/ GoOnOrOffAir
    \/ \E g \in Games : GameCommand(g)
    \/ \E g \in Categories : ChangeGame(g) \/ SendCategory(g)
    \/ LoseNotice
    \/ \E w \in Workers : Handle(w)
    \/ Sync \/ SyncFail
    \/ CategorySent

\* Workers and the loop run; a notification is handled or lost; Twitch answers
\* the loop again and again, though any one answer may be an error.
StreamFairness ==
    /\ \A w \in Workers : WF_streamVars(Handle(w))
    /\ WF_streamVars(Sync) /\ SF_streamVars(SyncLive)
    /\ WF_streamVars(CategorySent)
----------------------------------------------------------------------------
StreamSpec == StreamInit /\ [][StreamNext]_streamVars /\ StreamFairness

(* The fields of the stream, and where its writers are: the loop goes on   *)
(* to category and start only for a channel the answer has live.           *)
StreamTypeOK ==
    /\ listed \in BOOLEAN
    /\ now \in 0..MaxTime
    /\ game \in Categories
    /\ notices \subseteq Notice
    /\ handling \in [Workers -> {Idle} \cup [notice : Notice, at : {"live", "stats", "start"}]]
    /\ \A w \in Workers : handling[w].at = "start" => handling[w].notice.type = "online"
    /\ isLive \in BOOLEAN
    /\ category \in Categories
    /\ onceStart \in BOOLEAN
    /\ {start, end} \subseteq 0..MaxTime
    /\ sync \in {Idle} \cup [at : {"answered", "live", "once"}, answer : Answer]
    /\ sync.at \in {"live", "once"} => sync.answer.live
    /\ command \in Categories \cup {NoCommand}
    /\ changes \in 0..MaxChanges

(* The session's end never precedes its start, and a live stream's start   *)
(* is known, or about to be set by the one who found the stream live: the  *)
(* loop, which sets it only once in its life, and the online handlers,     *)
(* which unset it first, never leave it unset (stats.go:115-163,           *)
(* app.go:140-145).                                                        *)
StreamTimes ==
    /\ StreamTypeOK
    /\ start <= end
    /\ isLive /\ start = 0 =>
         \/ sync.at \in {"live", "once"}
         \/ \E w \in Workers : \E at \in {"stats", "start"} : Handling(w, "online", at)

(* When the stream of a channel whose id start-up has kept changes no      *)
(* more, the bot comes to believe the truth for good, whatever             *)
(* notifications it missed, got late or out of order and whatever stale    *)
(* answers the loop applied.  A channel whose id was lost is in the end    *)
(* off air for the bot, whatever it was told (event_sub.go:226-265,        *)
(* app.go:107, 122-165).                                                   *)
CatchesUp ==
    /\ listed => <>[](isLive = OnAir /\ (OnAir => category = game))
    /\ ~listed => <>[]~isLive

(* Not so: every channel catches up (app.go:107).                          *)
EveryChannelCatchesUp == <>[](isLive = OnAir)

(* Not so: the name "!am game" gives a Games + Demos stream stays until    *)
(* the category changes (admin/main.go:63-83).  The loop takes it back.    *)
GameNameStays ==
    [][category \notin {Nothing, game} /\ game = Demos /\ game' = game => category' = category]_streamVars

(* Not so: a session whose end has been recorded keeps it while the stream *)
(* is off air (stats.go:144-149).  A stale answer applied by the first     *)
(* round of the loop, or a late stream.online, sets the end back.          *)
EndSurvives ==
    [][start # end /\ ~OnAir => start' # end' \/ start' = 0]_streamVars
=============================================================================
