---------------------------- MODULE Stream_proofs ----------------------------
(***************************************************************************)
(* Theorems about what the bot keeps of a stream.                          *)
(*                                                                         *)
(* StreamState: for any number of EventSub workers and of changes of the   *)
(* stream, whatever notifications are lost, late or out of order.          *)
(*                                                                         *)
(* SessionStats: for any number of channels, streams and flushes, wherever *)
(* the process dies and whichever write of the file comes last.            *)
(***************************************************************************)
EXTENDS StreamState, SessionStats, TLAPS

-----------------------------------------------------------------------------
(* StreamState.                                                            *)

\* An online notification, waiting or being handled: the stream has begun.
Told ==
    now = 0 => /\ \A note \in notices : note.type # "online"
               /\ \A w \in Workers : handling[w] # Idle => handling[w].notice.type # "online"

\* No time is later than now, and an answer that says live says since when.
TimesPast ==
    /\ start <= end /\ end <= now
    /\ sync # Idle => /\ sync.answer.started <= now
                      /\ sync.answer.live => sync.answer.started # 0

\* A handler of an online notification that has unset the start.
Restarting == \E w \in Workers : Handling(w, "online", "start")

\* Only such a handler leaves the start unset, once the loop has set it.
OnceSet == onceStart /\ start = 0 => Restarting

\* A live stream's start is known or about to be set.
StartAhead ==
    isLive /\ start = 0 =>
        \/ sync.at \in {"live", "once"}
        \/ \E w \in Workers : \E at \in {"stats", "start"} : Handling(w, "online", at)

StreamInv == StreamTypeOK /\ Told /\ TimesPast /\ OnceSet /\ StartAhead

\* How far a worker has come, and with which notification.
LEMMA HandlingShape ==
    ASSUME StreamTypeOK, NEW w \in Workers
    PROVE  \/ handling[w] = Idle /\ handling[w].at = "idle"
           \/ /\ handling[w] \in [notice : Notice, at : {"live", "stats", "start"}]
              /\ handling[w] # Idle
BY DEF StreamTypeOK, Idle

\* A worker that goes on with its notification.
LEMMA AdvanceKeeps ==
    ASSUME StreamTypeOK, NEW w \in Workers, NEW from, NEW at \in {"stats", "start"},
           NEW type, Handling(w, type, from), from \in {"live", "stats"},
           at = "start" => type = "online", Advance(w, at)
    PROVE  /\ handling' \in [Workers -> {Idle} \cup [notice : Notice, at : {"live", "stats", "start"}]]
           /\ \A v \in Workers : handling'[v].at = "start" => handling'[v].notice.type = "online"
           /\ handling'[w] # Idle /\ handling'[w].at = at /\ handling'[w].notice = handling[w].notice
           /\ \A v \in Workers : v # w => handling'[v] = handling[v]
<1>1. handling[w] \in [notice : Notice, at : {"live", "stats", "start"}]
  BY HandlingShape DEF Handling
<1>2. handling'[w] = [handling[w] EXCEPT !.at = at]
  BY DEF Advance, StreamTypeOK
<1>3. /\ handling'[w] \in [notice : Notice, at : {"live", "stats", "start"}]
      /\ handling'[w].at = at /\ handling'[w].notice = handling[w].notice
  BY <1>1, <1>2
<1>4. handling'[w] # Idle
  BY <1>3 DEF Idle
<1>5. \A v \in Workers : v # w => handling'[v] = handling[v]
  BY DEF Advance, StreamTypeOK
<1>6. handling' = [v \in Workers |-> handling'[v]]
  BY DEF Advance, StreamTypeOK
<1>7. QED
  BY <1>3, <1>4, <1>5, <1>6 DEF StreamTypeOK, Handling

\* A worker that is done with its notification.
LEMMA FinishKeeps ==
    ASSUME StreamTypeOK, NEW w \in Workers, Finish(w)
    PROVE  /\ handling' \in [Workers -> {Idle} \cup [notice : Notice, at : {"live", "stats", "start"}]]
           /\ \A v \in Workers : handling'[v].at = "start" => handling'[v].notice.type = "online"
           /\ handling'[w] = Idle
           /\ \A v \in Workers : v # w => handling'[v] = handling[v]
<1>1. /\ handling'[w] = Idle
      /\ \A v \in Workers : v # w => handling'[v] = handling[v]
  BY DEF Finish, StreamTypeOK
<1>2. handling' \in [Workers -> {Idle} \cup [notice : Notice, at : {"live", "stats", "start"}]]
  BY DEF Finish, StreamTypeOK
<1>3. QED
  BY <1>1, <1>2 DEF StreamTypeOK, Idle

\* Nothing is handled, nothing is known.
LEMMA StreamInitInv == StreamInit => StreamInv
<1> SUFFICES ASSUME StreamInit PROVE StreamInv
  OBVIOUS
<1>1. StreamTypeOK
  <2>1. sync = Idle /\ sync.at = "idle"
    BY DEF StreamInit, Idle
  <2>2. /\ handling \in [Workers -> {Idle} \cup [notice : Notice, at : {"live", "stats", "start"}]]
        /\ \A w \in Workers : handling[w].at = "idle"
    BY DEF StreamInit, Idle
  <2>3. now \in 0..MaxTime /\ {start, end} \subseteq 0..MaxTime /\ changes \in 0..MaxChanges
    <3>1. now \in {0, 1} /\ start = 0 /\ end = 0 /\ changes = 0
      BY DEF StreamInit
    <3>2. QED
      BY <3>1, StreamBounds
  <2>4. listed \in BOOLEAN /\ game \in Categories /\ notices \subseteq Notice
    BY DEF StreamInit, AppendID, Categories
  <2>5. /\ isLive \in BOOLEAN /\ category \in Categories /\ onceStart \in BOOLEAN
        /\ command \in Categories \cup {NoCommand}
    BY DEF StreamInit, Categories, Nothing
  <2>6. QED
    BY <2>1, <2>2, <2>3, <2>4, <2>5 DEF StreamTypeOK
<1>2. Told /\ TimesPast /\ OnceSet /\ StartAhead
  BY DEF StreamInit, Told, TimesPast, OnceSet, StartAhead, Idle
<1>3. QED
  BY <1>1, <1>2 DEF StreamInv

\* A notification that Twitch sends, or not.
LEMMA NotifiedShape ==
    ASSUME StreamTypeOK, NEW note \in Notice, Notified(note)
    PROVE  /\ notices' \subseteq Notice
           /\ \A n \in notices' : n \in notices \/ n = note
BY DEF StreamTypeOK, Notified

\* Twitch: the stream goes on or off air, changes its category, a notification
\* is lost.
LEMMA TwitchKeeps ==
    ASSUME StreamInv,
           GoOnOrOffAir \/ LoseNotice \/ \E g \in Categories : ChangeGame(g) \/ SendCategory(g)
    PROVE  StreamInv'
<1>1. CASE GoOnOrOffAir
  <2> DEFINE note == [type |-> IF OnAir THEN "offline" ELSE "online"]
  <2>1. note \in Notice
    BY DEF Notice
  <2>2. Notified(note)
    BY <1>1 DEF GoOnOrOffAir
  <2>3. /\ notices' \subseteq Notice
        /\ \A n \in notices' : n \in notices \/ n = note
    BY <2>1, <2>2, NotifiedShape DEF StreamInv
  <2>4. now' = now + 1 /\ now' \in 0..MaxTime /\ now \in Nat
    <3>1. now \in 0..MaxTime
      BY DEF StreamInv, StreamTypeOK
    <3>2. now' = now + 1 /\ now < MaxTime
      BY <1>1 DEF GoOnOrOffAir
    <3>3. QED
      BY <3>1, <3>2, StreamBounds
  <2>5. StreamTypeOK'
    BY <1>1, <2>3, <2>4 DEF GoOnOrOffAir, StreamInv, StreamTypeOK
  <2>6. Told'
    BY <2>4 DEF Told
  <2>7. TimesPast'
    <3>1. start \in Nat /\ end \in Nat
      BY DEF StreamInv, StreamTypeOK
    <3>2. sync # Idle => sync.answer.started \in Nat
      BY DEF StreamInv, StreamTypeOK, Answer
    <3>3. UNCHANGED <<start, end, sync>>
      BY <1>1 DEF GoOnOrOffAir
    <3>4. QED
      BY <2>4, <3>1, <3>2, <3>3 DEF StreamInv, TimesPast
  <2>8. OnceSet' /\ StartAhead'
    BY <1>1 DEF GoOnOrOffAir, StreamInv, OnceSet, Restarting, StartAhead, Handling
  <2>9. QED
    BY <2>5, <2>6, <2>7, <2>8 DEF StreamInv
<1>2. CASE LoseNotice
  <2>1. StreamTypeOK'
    BY <1>2 DEF LoseNotice, StreamInv, StreamTypeOK
  <2>2. Told' /\ TimesPast' /\ OnceSet' /\ StartAhead'
    BY <1>2 DEF LoseNotice, StreamInv, Told, TimesPast, OnceSet, Restarting, StartAhead, Handling
  <2>3. QED
    BY <2>1, <2>2 DEF StreamInv
<1>3. ASSUME NEW g \in Categories, ChangeGame(g) \/ SendCategory(g)
      PROVE  StreamInv'
  <2> DEFINE note == [type |-> "update", game |-> g]
  <2>1. note \in Notice /\ note.type = "update"
    BY DEF Notice
  <2>2. Notified(note)
    BY <1>3 DEF ChangeGame, SendCategory
  <2>3. /\ notices' \subseteq Notice
        /\ \A n \in notices' : n \in notices \/ n = note
    BY <2>1, <2>2, NotifiedShape DEF StreamInv
  <2>4. changes' \in 0..MaxChanges
    <3>1. changes \in 0..MaxChanges
      BY DEF StreamInv, StreamTypeOK
    <3>2. changes' = changes + 1 /\ changes < MaxChanges
      BY <1>3 DEF ChangeGame, SendCategory
    <3>3. QED
      BY <3>1, <3>2, StreamBounds
  <2>5. command' \in Categories \cup {NoCommand}
    BY <1>3 DEF ChangeGame, SendCategory, StreamInv, StreamTypeOK
  <2>6. /\ game' = g
        /\ UNCHANGED <<listed, now, handling, isLive, category, onceStart, start, end, sync>>
    BY <1>3 DEF ChangeGame, SendCategory
  <2>7. StreamTypeOK'
    BY <2>3, <2>4, <2>5, <2>6 DEF StreamInv, StreamTypeOK
  <2>8. Told'
    BY <2>1, <2>3, <2>6 DEF StreamInv, Told
  <2>9. TimesPast' /\ OnceSet' /\ StartAhead'
    BY <2>6 DEF StreamInv, TimesPast, OnceSet, Restarting, StartAhead, Handling
  <2>10. QED
    BY <2>7, <2>8, <2>9 DEF StreamInv
<1>4. QED
  BY <1>1, <1>2, <1>3

\* A worker takes a notification.
LEMMA TakeKeeps ==
    ASSUME StreamInv, NEW w \in Workers, TakeNotice(w)
    PROVE  StreamInv'
<1>1. PICK note \in notices :
         /\ notices' = notices \ {note}
         /\ handling' = [handling EXCEPT ![w] = [notice |-> note, at |-> "live"]]
  BY DEF TakeNotice
<1>2. /\ handling' \in [Workers -> {Idle} \cup [notice : Notice, at : {"live", "stats", "start"}]]
      /\ handling'[w] = [notice |-> note, at |-> "live"]
      /\ \A v \in Workers : v # w => handling'[v] = handling[v]
  BY <1>1 DEF StreamInv, StreamTypeOK
<1>3. \A v \in Workers : handling'[v].at = "start" => handling'[v].notice.type = "online"
  BY <1>2 DEF StreamInv, StreamTypeOK
<1>4. StreamTypeOK'
  BY <1>1, <1>2, <1>3 DEF TakeNotice, StreamInv, StreamTypeOK
<1>5. Told'
  BY <1>1, <1>2 DEF TakeNotice, StreamInv, Told
<1>6. TimesPast'
  BY DEF TakeNotice, StreamInv, TimesPast
<1>7. \A type, at : \A v \in Workers : Handling(v, type, at) /\ at # "idle" => Handling(v, type, at)'
  BY <1>2 DEF Handling, TakeNotice, Idle
<1>8. OnceSet' /\ StartAhead'
  BY <1>7 DEF TakeNotice, StreamInv, OnceSet, Restarting, StartAhead
<1>9. QED
  BY <1>4, <1>5, <1>6, <1>8 DEF StreamInv

\* A worker handles its notification.
LEMMA HandleKeeps ==
    ASSUME StreamInv, NEW w \in Workers,
           SetLive(w) \/ OnlineReset(w) \/ OnlineStart(w) \/ OfflineEnd(w) \/ UpdateCategory(w)
    PROVE  StreamInv'
<1> USE DEF StreamInv
<1>0. UNCHANGED <<listed, now, game, notices, onceStart, sync, command, changes>>
  BY DEF SetLive, OnlineReset, OnlineStart, OfflineEnd, UpdateCategory
<1>1. CASE SetLive(w)
  <2>1. PICK type \in {"online", "offline"} : Handling(w, type, "live") /\ isLive' = (type = "online")
    BY <1>1 DEF SetLive
  <2>2. Advance(w, "stats") /\ UNCHANGED <<category, start, end>>
    BY <1>1 DEF SetLive
  <2>3. /\ handling' \in [Workers -> {Idle} \cup [notice : Notice, at : {"live", "stats", "start"}]]
        /\ \A v \in Workers : handling'[v].at = "start" => handling'[v].notice.type = "online"
        /\ handling'[w] # Idle /\ handling'[w].at = "stats" /\ handling'[w].notice = handling[w].notice
        /\ \A v \in Workers : v # w => handling'[v] = handling[v]
    BY <2>1, <2>2, AdvanceKeeps
  <2>4. StreamTypeOK'
    BY <1>0, <2>1, <2>2, <2>3 DEF StreamTypeOK
  <2>5. handling[w] # Idle
    BY <2>1, HandlingShape DEF Handling
  <2>6. Told' /\ TimesPast'
    BY <1>0, <2>2, <2>3, <2>5 DEF Told, TimesPast
  <2>7. OnceSet'
    BY <1>0, <2>1, <2>2, <2>3 DEF OnceSet, Restarting, Handling
  <2>8. StartAhead'
    <3>1. CASE type = "online"
      BY <2>1, <2>3, <3>1 DEF StartAhead, Handling
    <3>2. CASE type = "offline"
      BY <2>1, <3>2 DEF StartAhead
    <3>3. QED
      BY <3>1, <3>2
  <2>9. QED
    BY <2>4, <2>6, <2>7, <2>8
<1>2. CASE OnlineReset(w)
  <2>1. Handling(w, "online", "stats") /\ Advance(w, "start")
    BY <1>2 DEF OnlineReset
  <2>2. start' = 0 /\ end' = 0 /\ UNCHANGED <<isLive, category>>
    BY <1>2 DEF OnlineReset, ResetTimes
  <2>3. /\ handling' \in [Workers -> {Idle} \cup [notice : Notice, at : {"live", "stats", "start"}]]
        /\ \A v \in Workers : handling'[v].at = "start" => handling'[v].notice.type = "online"
        /\ handling'[w] # Idle /\ handling'[w].at = "start" /\ handling'[w].notice = handling[w].notice
        /\ \A v \in Workers : v # w => handling'[v] = handling[v]
    BY <2>1, AdvanceKeeps
  <2>4. StreamTypeOK'
    <3>1. {start', end'} \subseteq 0..MaxTime
      BY <2>2, StreamBounds
    <3>2. QED
      BY <1>0, <2>2, <2>3, <3>1 DEF StreamTypeOK
  <2>5. handling[w] # Idle
    BY <2>1, HandlingShape DEF Handling
  <2>6. Told'
    BY <1>0, <2>3, <2>5 DEF Told
  <2>7. TimesPast'
    <3>1. now \in Nat
      BY DEF StreamTypeOK
    <3>2. QED
      BY <1>0, <2>2, <3>1 DEF TimesPast
  <2>8. Handling(w, "online", "start")'
    BY <2>1, <2>3 DEF Handling
  <2>9. OnceSet' /\ StartAhead'
    BY <2>8 DEF OnceSet, Restarting, StartAhead
  <2>10. QED
    BY <2>4, <2>6, <2>7, <2>9
<1>3. ASSUME OnlineStart(w) \/ OfflineEnd(w) \/ UpdateCategory(w)
      PROVE  StreamInv'
  <2>1. Finish(w) /\ UNCHANGED isLive
    BY <1>3 DEF OnlineStart, OfflineEnd, UpdateCategory
  <2>2. /\ handling' \in [Workers -> {Idle} \cup [notice : Notice, at : {"live", "stats", "start"}]]
        /\ \A v \in Workers : handling'[v].at = "start" => handling'[v].notice.type = "online"
        /\ handling'[w] = Idle
        /\ \A v \in Workers : v # w => handling'[v] = handling[v]
    BY <2>1, FinishKeeps
  <2>3. handling[w] \in [notice : Notice, at : {"live", "stats", "start"}] /\ handling[w] # Idle
    BY <1>3, HandlingShape DEF OnlineStart, OfflineEnd, UpdateCategory, Handling
  <2>4. Told'
    BY <1>0, <2>2 DEF Told
  <2>5. now \in 0..MaxTime /\ now \in Nat /\ start \in Nat /\ end \in Nat
    BY StreamBounds DEF StreamTypeOK
  <2>6. CASE OnlineStart(w)
    <3>1. start' = now /\ end' = now /\ UNCHANGED category
      BY <2>6 DEF OnlineStart, SetStreamTimes
    <3>2. now # 0
      BY <2>3, <2>6 DEF Told, OnlineStart, Handling
    <3>3. StreamTypeOK'
      BY <1>0, <2>1, <2>2, <2>5, <3>1 DEF StreamTypeOK
    <3>4. TimesPast'
      BY <1>0, <2>5, <3>1 DEF TimesPast
    <3>5. OnceSet' /\ StartAhead'
      BY <3>1, <3>2 DEF OnceSet, StartAhead
    <3>6. QED
      BY <2>4, <3>3, <3>4, <3>5
  <2>7. ASSUME OfflineEnd(w) \/ UpdateCategory(w)
        PROVE  StreamInv'
    <3>1. handling[w].notice.type # "online"
      BY <2>7 DEF OfflineEnd, UpdateCategory, Handling
    <3>2. start' = start
      BY <2>7 DEF OfflineEnd, UpdateCategory
    <3>3. end' = now \/ end' = end
      BY <2>7 DEF OfflineEnd, UpdateCategory
    <3>4. category' \in Categories
      <4>1. CASE OfflineEnd(w)
        BY <4>1 DEF OfflineEnd, StreamTypeOK
      <4>2. CASE UpdateCategory(w)
        <5>1. handling[w].notice \in Notice /\ handling[w].notice.type = "update"
          BY <2>3, <4>2 DEF UpdateCategory, Handling
        <5>2. handling[w].notice.game \in Categories
          BY <5>1 DEF Notice
        <5>3. QED
          BY <4>2, <5>2 DEF UpdateCategory
      <4>3. QED
        BY <2>7, <4>1, <4>2
    <3>5. StreamTypeOK'
      BY <1>0, <2>1, <2>2, <2>5, <3>2, <3>3, <3>4 DEF StreamTypeOK
    <3>6. TimesPast'
      BY <1>0, <2>5, <3>2, <3>3 DEF TimesPast
    <3>7. \A at : \A v \in Workers : Handling(v, "online", at) => Handling(v, "online", at)'
      BY <2>2, <3>1 DEF Handling
    <3>8. OnceSet' /\ StartAhead'
      BY <1>0, <2>1, <3>2, <3>7 DEF OnceSet, Restarting, StartAhead
    <3>9. QED
      BY <2>4, <3>5, <3>6, <3>8
  <2>8. QED
    BY <1>3, <2>6, <2>7
<1>4. QED
  BY <1>1, <1>2, <1>3

\* The loop asks, and is answered or not.
LEMMA AskKeeps ==
    ASSUME StreamInv, SyncAsk \/ SyncFail
    PROVE  StreamInv'
<1> USE DEF StreamInv
<1>1. UNCHANGED <<listed, now, game, notices, handling, isLive, category, onceStart,
                  start, end, command, changes>>
  BY DEF SyncAsk, SyncFail
<1>2. now \in 0..MaxTime /\ now \in Nat
  BY StreamBounds DEF StreamTypeOK
<1>3. sync.at \notin {"live", "once"}
  BY DEF SyncAsk, SyncFail
<1>4. OnceSet' /\ StartAhead'
  BY <1>1, <1>3 DEF OnceSet, Restarting, StartAhead, Handling
<1>5. Told'
  BY <1>1 DEF Told
<1>6. CASE SyncFail
  <2>1. sync' = Idle /\ sync'.at = "idle"
    BY <1>6 DEF SyncFail, Idle
  <2>2. StreamTypeOK'
    BY <1>1, <2>1 DEF StreamTypeOK
  <2>3. TimesPast'
    BY <1>1, <2>1 DEF TimesPast
  <2>4. QED
    BY <1>4, <1>5, <2>2, <2>3
<1>7. CASE SyncAsk
  <2> DEFINE answer == [live |-> listed /\ OnAir, game |-> game, started |-> now]
  <2>1. sync' = [at |-> "answered", answer |-> answer]
    BY <1>7 DEF SyncAsk
  <2>2. answer \in Answer
    BY <1>2 DEF Answer, StreamTypeOK
  <2>3. answer.live => answer.started # 0
    <3>1. 0 % 2 = 0
      OBVIOUS
    <3>2. OnAir => now # 0
      BY <3>1 DEF OnAir
    <3>3. QED
      BY <3>2
  <2> HIDE DEF answer
  <2>4. /\ sync' \in [at : {"answered", "live", "once"}, answer : Answer]
        /\ sync'.at \notin {"live", "once"}
    BY <2>1, <2>2
  <2>5. StreamTypeOK'
    BY <1>1, <2>4 DEF StreamTypeOK
  <2>6. sync'.answer.started <= now' /\ (sync'.answer.live => sync'.answer.started # 0)
    BY <1>1, <1>2, <2>1, <2>3 DEF answer
  <2>7. TimesPast'
    BY <1>1, <2>6 DEF TimesPast
  <2>8. QED
    BY <1>4, <1>5, <2>5, <2>7
<1>8. QED
  BY <1>6, <1>7

\* The loop applies an answer: what it says of the channel, the category, the
\* start.
LEMMA SyncKeeps ==
    ASSUME StreamInv, SyncLive \/ SyncCategory \/ SyncTimes
    PROVE  StreamInv'
<1> USE DEF StreamInv
<1>1. UNCHANGED <<listed, now, game, notices, handling, command, changes>>
  BY DEF SyncLive, SyncCategory, SyncTimes
<1>2. sync \in [at : {"answered", "live", "once"}, answer : Answer] /\ sync # Idle
  BY DEF SyncLive, SyncCategory, SyncTimes, StreamTypeOK, Idle
<1>3. sync.answer \in Answer
  BY <1>2
<1>4. Told'
  BY <1>1 DEF Told
<1>5. CASE SyncLive
  <2>1. isLive' = sync.answer.live /\ isLive' \in BOOLEAN
    BY <1>3, <1>5 DEF SyncLive, Answer
  <2>2. UNCHANGED <<category, onceStart, start, end>>
    BY <1>5 DEF SyncLive
  <2>3. sync' = IF sync.answer.live THEN [sync EXCEPT !.at = "live"] ELSE Idle
    BY <1>5 DEF SyncLive
  <2>4. CASE sync.answer.live
    <3>1. /\ sync' \in [at : {"answered", "live", "once"}, answer : Answer]
          /\ sync'.at = "live" /\ sync'.answer = sync.answer
      BY <1>2, <2>3, <2>4
    <3>2. StreamTypeOK'
      BY <1>1, <2>1, <2>2, <2>4, <3>1 DEF StreamTypeOK
    <3>3. TimesPast'
      BY <1>1, <1>2, <2>2, <3>1 DEF TimesPast
    <3>4. OnceSet' /\ StartAhead'
      BY <1>1, <2>2, <3>1 DEF OnceSet, Restarting, StartAhead, Handling
    <3>5. QED
      BY <1>4, <3>2, <3>3, <3>4
  <2>5. CASE ~ sync.answer.live
    <3>1. sync' = Idle /\ sync'.at = "idle"
      BY <2>3, <2>5 DEF Idle
    <3>2. StreamTypeOK'
      BY <1>1, <2>1, <2>2, <3>1 DEF StreamTypeOK
    <3>3. TimesPast'
      BY <1>1, <2>2, <3>1 DEF TimesPast
    <3>4. OnceSet' /\ StartAhead'
      BY <1>1, <2>1, <2>2, <2>5 DEF OnceSet, Restarting, StartAhead, Handling
    <3>5. QED
      BY <1>4, <3>2, <3>3, <3>4
  <2>6. QED
    BY <2>4, <2>5
<1>6. CASE SyncCategory
  <2>1. sync.at = "live" /\ sync' = [sync EXCEPT !.at = "once"]
    BY <1>6 DEF SyncCategory
  <2>2. /\ sync' \in [at : {"answered", "live", "once"}, answer : Answer]
        /\ sync'.at = "once" /\ sync'.answer = sync.answer
    BY <1>2, <2>1
  <2>3. category' \in Categories /\ UNCHANGED <<isLive, onceStart, start, end>>
    BY <1>3, <1>6 DEF SyncCategory, Answer
  <2>4. StreamTypeOK'
    BY <1>1, <2>1, <2>2, <2>3 DEF StreamTypeOK
  <2>5. TimesPast'
    BY <1>1, <1>2, <2>2, <2>3 DEF TimesPast
  <2>6. OnceSet' /\ StartAhead'
    BY <1>1, <2>2, <2>3 DEF OnceSet, Restarting, StartAhead, Handling
  <2>7. QED
    BY <1>4, <2>4, <2>5, <2>6
<1>7. CASE SyncTimes
  <2>1. sync.at = "once" /\ sync' = Idle /\ sync'.at = "idle" /\ onceStart' = TRUE
    BY <1>7 DEF SyncTimes, Idle
  <2>2. UNCHANGED <<isLive, category>>
    BY <1>7 DEF SyncTimes
  <2>3. /\ sync.answer.live /\ sync.answer.started \in 0..MaxTime
        /\ sync.answer.started # 0 /\ sync.answer.started <= now
    BY <1>2, <1>3, <2>1 DEF StreamTypeOK, TimesPast, Answer
  <2>4. /\ {start', end'} \subseteq 0..MaxTime
        /\ start' <= end' /\ end' <= now
        /\ start' = 0 => onceStart /\ start = 0
    <3>1. CASE onceStart
      <4>1. start' = start /\ end' = end
        BY <1>7, <3>1 DEF SyncTimes
      <4>2. QED
        BY <3>1, <4>1 DEF StreamTypeOK, TimesPast
    <3>2. CASE ~ onceStart
      <4>1. start' = sync.answer.started /\ end' = sync.answer.started
        BY <1>7, <3>2 DEF SyncTimes, SetStreamTimes
      <4>2. sync.answer.started \in Nat
        BY <2>3, StreamBounds
      <4>3. QED
        BY <2>3, <4>1, <4>2
    <3>3. QED
      BY <3>1, <3>2
  <2>5. StreamTypeOK'
    BY <1>1, <2>1, <2>2, <2>4 DEF StreamTypeOK
  <2>6. TimesPast'
    BY <1>1, <2>1, <2>4 DEF TimesPast
  <2>7. start' = 0 => Restarting'
    BY <1>1, <2>4 DEF OnceSet, Restarting, Handling
  <2>8. OnceSet' /\ StartAhead'
    BY <2>7 DEF OnceSet, StartAhead, Restarting
  <2>9. QED
    BY <1>4, <2>5, <2>6, <2>8
<1>8. QED
  BY <1>5, <1>6, <1>7

\* The commands, once Twitch has been told.
LEMMA CommandKeeps ==
    ASSUME StreamInv, CategorySent \/ \E g \in Games : GameCommand(g)
    PROVE  StreamInv'
<1> USE DEF StreamInv
<1>1. UNCHANGED <<listed, now, game, notices, handling, isLive, onceStart, start, end, sync>>
  BY DEF CategorySent, GameCommand
<1>2. /\ category' \in Categories /\ command' \in Categories \cup {NoCommand}
      /\ changes' \in 0..MaxChanges
  <2>1. CASE CategorySent
    BY <2>1 DEF CategorySent, StreamTypeOK
  <2>2. ASSUME NEW g \in Games, GameCommand(g)
        PROVE  /\ category' \in Categories /\ command' \in Categories \cup {NoCommand}
               /\ changes' \in 0..MaxChanges
    <3>1. category' \in Categories /\ command' \in Categories \cup {NoCommand}
      BY <2>2 DEF GameCommand, StreamTypeOK, Categories
    <3>2. changes \in 0..MaxChanges
      BY DEF StreamTypeOK
    <3>3. changes' = changes + 1 /\ changes < MaxChanges
      BY <2>2 DEF GameCommand
    <3>4. QED
      BY <3>1, <3>2, <3>3, StreamBounds
  <2>3. QED
    BY <2>1, <2>2
<1>3. StreamTypeOK'
  BY <1>1, <1>2 DEF StreamTypeOK
<1>4. Told' /\ TimesPast' /\ OnceSet' /\ StartAhead'
  BY <1>1 DEF Told, TimesPast, OnceSet, Restarting, StartAhead, Handling
<1>5. QED
  BY <1>3, <1>4

\* One step of Twitch, a worker, the loop or a command.
LEMMA StreamNextInv == StreamInv /\ [StreamNext]_streamVars => StreamInv'
<1> SUFFICES ASSUME StreamInv, [StreamNext]_streamVars PROVE StreamInv'
  OBVIOUS
<1>1. CASE UNCHANGED streamVars
  <2>1. StreamTypeOK'
    BY <1>1 DEF streamVars, StreamInv, StreamTypeOK
  <2>2. Told' /\ TimesPast' /\ OnceSet' /\ StartAhead'
    BY <1>1 DEF streamVars, StreamInv, Told, TimesPast, OnceSet, Restarting, StartAhead, Handling
  <2>3. QED
    BY <2>1, <2>2 DEF StreamInv
<1>2. CASE GoOnOrOffAir \/ LoseNotice \/ \E g \in Categories : ChangeGame(g) \/ SendCategory(g)
  BY <1>2, TwitchKeeps
<1>3. CASE CategorySent \/ \E g \in Games : GameCommand(g)
  BY <1>3, CommandKeeps
<1>4. ASSUME NEW w \in Workers, Handle(w) PROVE StreamInv'
  BY <1>4, TakeKeeps, HandleKeeps DEF Handle
<1>5. CASE Sync \/ SyncFail
  BY <1>5, AskKeeps, SyncKeeps DEF Sync
<1>6. QED
  BY <1>1, <1>2, <1>3, <1>4, <1>5 DEF StreamNext

\* Whatever notifications are lost or late and whatever stale answers the loop
\* applies: no session ends before it starts, and the start of a live stream is
\* known or about to be set (stats.go:115-163, app.go:140-145).
THEOREM StreamTimesKept == StreamSpec => []StreamTimes
<1>1. StreamInv => StreamTimes
  BY DEF StreamInv, TimesPast, StartAhead, StreamTimes
<1>2. QED
  BY <1>1, StreamInitInv, StreamNextInv, PTL DEF StreamSpec

-----------------------------------------------------------------------------
(* SessionStats.                                                           *)

\* The functions the program keeps have an entry for each channel.
Mapped ==
    /\ session \in [Channels -> 0 .. MaxSessions]
    /\ happened \in [Channels -> Counts]
    /\ notice \in [Channels -> {"none", "sent", "reset"}]
    /\ stats \in [Channels -> SessionStats]
    /\ DOMAIN cache = Channels
    /\ once \subseteq Channels
    /\ up \in BOOLEAN /\ crashes \in 0 .. MaxCrashes

\* What a reader of an entry finds is no more than there was.
CacheSound ==
    \A c \in Channels :
       \/ cache[c] = NoEntry
       \/ \E n \in 0 .. session[c] : cache[c] = Shared(n)
       \/ /\ cache[c].maps = "copied"
          /\ cache[c].stats \in SessionStats /\ Within(cache[c].stats, c)

\* Statistics of channels, each no more than there was.
Sound(data) ==
    /\ DOMAIN data \subseteq Channels
    /\ \A c \in DOMAIN data : data[c] \in SessionStats /\ Within(data[c], c)

\* Every flush has encoded such statistics, and so has the file, unless it is
\* not to be read.
FlushSound ==
    /\ IsABag(flush)
    /\ \A g \in BagToSet(flush) :
          /\ g.at \in {"begun", "encoded", "opened"}
          /\ g.at # "begun" => Sound(g.data)

FileSound == file \notin Unreadable => Sound(file)

StatsInv ==
    /\ Mapped
    /\ \A c \in Channels : Within(stats[c], c)
    /\ CacheSound /\ FlushSound /\ FileSound

\* The bounds of the model are numbers, and no session is before the first.
LEMMA Bounds == 0 \in 0 .. MaxSessions /\ MaxSessions \in Nat
BY SessionStatsAssumption

\* A goroutine that begins or goes on with a flush, or ends.
LEMMA BagOfOne ==
    ASSUME NEW g
    PROVE  /\ IsABag(Single(g)) /\ BagToSet(Single(g)) = {g}
           /\ IsABag(EmptyBag) /\ BagToSet(EmptyBag) = {}
BY DEF Single, IsABag, BagToSet, SetToBag, EmptyBag

\* Flushes that begin.
LEMMA BagOfBegun ==
    ASSUME NEW n \in Nat \ {0}
    PROVE  IsABag(Starting(n)) /\ BagToSet(Starting(n)) = {Begun}
BY DEF IsABag, BagToSet, Starting

\* What is in a bag after another is added to it.
LEMMA BagAdded ==
    ASSUME NEW B, IsABag(B), NEW C, IsABag(C)
    PROVE  IsABag(B (+) C) /\ BagToSet(B (+) C) = BagToSet(B) \cup BagToSet(C)
BY DEF IsABag, BagToSet, (+)

\* Taking elements out of a bag puts none in.
LEMMA BagTaken ==
    ASSUME NEW B, IsABag(B), NEW C, IsABag(C)
    PROVE  IsABag(B (-) C) /\ BagToSet(B (-) C) \subseteq BagToSet(B)
<1> DEFINE Left == [e \in DOMAIN B |-> IF e \in DOMAIN C THEN B[e] - C[e] ELSE B[e]]
<1>1. B (-) C = [e \in {d \in DOMAIN Left : Left[d] > 0} |-> Left[e]]
  BY DEF (-)
<1>2. \A e \in DOMAIN B : Left[e] \in Int
  BY DEF IsABag
<1>3. QED
  BY <1>1, <1>2 DEF IsABag, BagToSet

\* Nothing has happened, nothing is stored.
LEMMA StatsInitInv == Init => StatsInv
<1> SUFFICES ASSUME Init PROVE StatsInv
  OBVIOUS
<1>1. Zero \in Counts /\ NoStats \in SessionStats
  BY Bounds DEF Zero, Counts, NoStats, SessionStats
<1>2. Mapped
  BY <1>1, Bounds, SessionStatsAssumption DEF Init, Mapped
<1>3. \A c \in Channels : Within(stats[c], c)
  BY Bounds DEF Init, Within, NoStats, Zero
<1>4. CacheSound
  BY DEF Init, CacheSound
<1>5. FlushSound
  BY BagOfOne DEF Init, FlushSound
<1>6. FileSound
  BY DEF Init, FileSound, Unreadable
<1>7. QED
  BY <1>2, <1>3, <1>4, <1>5, <1>6 DEF StatsInv

\* As the streams and the counts of what happened only grow, what was no more
\* than there was stays so, wherever it is kept.
LEMMA SoundStays ==
    ASSUME StatsInv, session' \in [Channels -> 0 .. MaxSessions],
           happened' \in [Channels -> Counts],
           \A c \in Channels : session[c] <= session'[c],
           \A c \in Channels, n \in 0 .. MaxSessions : happened[c][n] <= happened'[c][n]
    PROVE  /\ \A c \in Channels, s \in SessionStats : Within(s, c) => Within(s, c)'
           /\ UNCHANGED cache => CacheSound'
           /\ UNCHANGED flush => FlushSound'
           /\ UNCHANGED file => FileSound'
<1>1. ASSUME NEW c \in Channels, NEW s \in SessionStats, Within(s, c) PROVE Within(s, c)'
  <2>1. session[c] \in Int /\ session'[c] \in Int /\ s.start \in Int
    BY <1>1 DEF StatsInv, Mapped, SessionStats
  <2>2. ASSUME NEW n \in 0 .. MaxSessions PROVE s.counts[n] + s.warns[n] <= happened'[c][n]
    <3>1. happened[c] \in Counts /\ happened'[c] \in Counts
      BY DEF StatsInv, Mapped
    <3>2. happened[c][n] \in Nat /\ happened'[c][n] \in Nat
      BY <3>1 DEF Counts
    <3>3. s.counts[n] \in Nat /\ s.warns[n] \in Nat
      BY <1>1 DEF SessionStats, Counts
    <3>4. s.counts[n] + s.warns[n] <= happened[c][n] /\ happened[c][n] <= happened'[c][n]
      BY <1>1 DEF Within
    <3>5. QED
      BY <3>2, <3>3, <3>4
  <2>3. s.start <= session'[c]
    BY <1>1, <2>1 DEF Within
  <2>4. QED
    BY <2>2, <2>3 DEF Within
<1>2. \A data : Sound(data) => Sound(data)'
  BY <1>1 DEF Sound
<1>3. ASSUME UNCHANGED cache PROVE CacheSound'
  <2> SUFFICES ASSUME NEW c \in Channels, cache[c] # NoEntry
               PROVE  \/ \E n \in 0 .. session'[c] : cache[c] = Shared(n)
                      \/ /\ cache[c].maps = "copied"
                         /\ cache[c].stats \in SessionStats /\ Within(cache[c].stats, c)'
    BY <1>3 DEF CacheSound
  <2>1. CASE \E n \in 0 .. session[c] : cache[c] = Shared(n)
    <3>1. session[c] \in Int /\ session'[c] \in Int
      BY DEF StatsInv, Mapped
    <3>2. 0 .. session[c] \subseteq 0 .. session'[c]
      BY <3>1
    <3>3. QED
      BY <2>1, <3>2
  <2>2. CASE /\ cache[c].maps = "copied"
             /\ cache[c].stats \in SessionStats /\ Within(cache[c].stats, c)
    BY <1>1, <1>3, <2>2
  <2>3. \/ \E n \in 0 .. session[c] : cache[c] = Shared(n)
        \/ /\ cache[c].maps = "copied"
           /\ cache[c].stats \in SessionStats /\ Within(cache[c].stats, c)
    BY DEF StatsInv, CacheSound
  <2>4. QED
    BY <2>1, <2>2, <2>3
<1>4. ASSUME UNCHANGED flush PROVE FlushSound'
  BY <1>2, <1>4 DEF StatsInv, FlushSound
<1>5. ASSUME UNCHANGED file PROVE FileSound'
  BY <1>2, <1>5 DEF StatsInv, FileSound
<1>6. QED
  BY <1>1, <1>3, <1>4, <1>5

\* Such statistics stay so while no stream begins and nothing is counted.
LEMMA SoundKept ==
    ASSUME UNCHANGED <<session, happened>>
    PROVE  /\ \A c, s : Within(s, c)' <=> Within(s, c)
           /\ \A data : Sound(data)' <=> Sound(data)
<1>1. \A c, s : Within(s, c)' <=> Within(s, c)
  BY DEF Within
<1>2. QED
  BY <1>1 DEF Sound

\* A reader of an entry finds no more than there was: a copy is such
\* statistics, and the shared maps are those of the program.
LEMMA EntrySound ==
    ASSUME StatsInv, NEW c \in Channels, cache[c] # NoEntry
    PROVE  Entry(c) \in SessionStats /\ Within(Entry(c), c)
<1>1. stats[c] \in SessionStats /\ Within(stats[c], c)
  BY DEF StatsInv, Mapped
<1>2. CASE \E n \in 0 .. session[c] : cache[c] = Shared(n)
  <2>1. PICK n \in 0 .. session[c] : cache[c] = Shared(n)
    BY <1>2
  <2>2. cache[c].maps = "shared" /\ cache[c].start = n
    BY <2>1 DEF Shared
  <2>3. Entry(c) = [stats[c] EXCEPT !.start = n]
    BY <2>2 DEF Entry
  <2>4. n \in 0 .. MaxSessions /\ n <= session[c]
    <3>1. session[c] \in 0 .. MaxSessions
      BY DEF StatsInv, Mapped
    <3>2. QED
      BY <3>1, Bounds
  <2>5. QED
    BY <1>1, <2>3, <2>4 DEF SessionStats, Within
<1>3. CASE /\ cache[c].maps = "copied"
           /\ cache[c].stats \in SessionStats /\ Within(cache[c].stats, c)
  BY <1>3 DEF Entry
<1>4. QED
  BY <1>2, <1>3 DEF StatsInv, CacheSound

\* A stream begins.
LEMMA GoLiveKeeps ==
    ASSUME StatsInv, NEW c \in Channels, GoLive(c)
    PROVE  StatsInv'
<1>1. UNCHANGED <<happened, stats, once, cache, flush, file, up, crashes>>
  BY DEF GoLive
<1>2. session[c] \in 0 .. MaxSessions /\ session[c] + 1 \in 0 .. MaxSessions
  <2>1. session[c] \in 0 .. MaxSessions /\ session[c] < MaxSessions
    BY DEF GoLive, StatsInv, Mapped
  <2>2. QED
    BY <2>1, Bounds
<1>3. session' = [session EXCEPT ![c] = session[c] + 1]
  BY DEF GoLive
<1>4. \A d \in Channels : session[d] \in Int
  BY DEF StatsInv, Mapped
<1>5. /\ session' \in [Channels -> 0 .. MaxSessions]
      /\ \A d \in Channels : session[d] <= session'[d]
  BY <1>2, <1>3, <1>4 DEF StatsInv, Mapped
<1>6. \A d \in Channels, n \in 0 .. MaxSessions : happened[d][n] <= happened'[d][n]
  <2> SUFFICES ASSUME NEW d \in Channels, NEW n \in 0 .. MaxSessions
               PROVE  happened[d][n] <= happened[d][n]
    BY <1>1
  <2>1. happened[d] \in Counts
    BY DEF StatsInv, Mapped
  <2>2. happened[d][n] \in Nat
    BY <2>1 DEF Counts
  <2>3. QED
    BY <2>2
<1>7. Mapped'
  BY <1>1, <1>5 DEF GoLive, StatsInv, Mapped
<1>8. happened' \in [Channels -> Counts]
  BY <1>7 DEF Mapped
<1>9. /\ \A d \in Channels, s \in SessionStats : Within(s, d) => Within(s, d)'
      /\ CacheSound' /\ FlushSound' /\ FileSound'
  BY <1>1, <1>5, <1>6, <1>8, SoundStays
<1>10. \A d \in Channels : Within(stats[d], d)'
  BY <1>1, <1>9 DEF StatsInv, Mapped
<1>11. QED
  BY <1>1, <1>7, <1>9, <1>10 DEF StatsInv, Within

\* A flush begins: it has encoded nothing yet.
LEMMA SetKeeps ==
    ASSUME StatsInv, NEW c \in Channels, NEW entry, Set(c, entry),
           UNCHANGED <<session, happened>>,
           \/ entry = Shared(0)
           \/ /\ entry.maps = "copied"
              /\ entry.stats \in SessionStats /\ Within(entry.stats, c)
    PROVE  DOMAIN cache' = Channels /\ CacheSound' /\ FlushSound'
<1>1. cache' = [cache EXCEPT ![c] = entry] /\ DOMAIN cache = Channels
  BY DEF Set, StatsInv, Mapped
<1>2. DOMAIN cache' = Channels
  BY <1>1
<1>3. CacheSound'
  <2> SUFFICES ASSUME NEW d \in Channels
               PROVE  \/ cache'[d] = NoEntry
                      \/ \E n \in 0 .. session[d] : cache'[d] = Shared(n)
                      \/ /\ cache'[d].maps = "copied"
                         /\ cache'[d].stats \in SessionStats /\ Within(cache'[d].stats, d)
    BY SoundKept DEF CacheSound, Within
  <2>1. CASE d # c
    <3>1. cache'[d] = cache[d]
      BY <1>1, <2>1
    <3>2. QED
      BY <3>1 DEF StatsInv, CacheSound
  <2>2. CASE d = c
    <3>1. cache'[d] = entry
      BY <1>1, <2>2
    <3>2. session[c] \in 0 .. MaxSessions
      BY DEF StatsInv, Mapped
    <3>3. 0 \in 0 .. session[c]
      BY <3>2, Bounds
    <3>4. QED
      BY <2>2, <3>1, <3>3
  <2>3. QED
    BY <2>1, <2>2
<1>4. FlushSound'
  <2>1. FlushesOf(c) \in Nat \ {0}
    BY DEF FlushesOf
  <2>2. flush' = flush (+) Starting(FlushesOf(c))
    BY DEF Set
  <2>3. IsABag(Starting(FlushesOf(c))) /\ BagToSet(Starting(FlushesOf(c))) = {Begun}
    BY <2>1, BagOfBegun
  <2>4. IsABag(flush') /\ BagToSet(flush') = BagToSet(flush) \cup {Begun}
    BY <2>2, <2>3, BagAdded DEF StatsInv, FlushSound
  <2>5. Begun.at = "begun"
    BY DEF Begun
  <2>6. \A data : Sound(data)' <=> Sound(data)
    BY SoundKept
  <2>7. QED
    BY <2>4, <2>5, <2>6 DEF StatsInv, FlushSound
<1>5. QED
  BY <1>2, <1>3, <1>4

\* The statistics are reset, and their new maps stored; or a copy is.
LEMMA StoreKeeps ==
    ASSUME StatsInv, NEW c \in Channels, Reset(c) \/ Tick(c)
    PROVE  StatsInv'
<1>1. UNCHANGED <<session, happened, file, up, crashes, once>>
  BY DEF Reset, Tick, procVars
<1>2. stats[c] \in SessionStats /\ Within(stats[c], c)
  BY DEF StatsInv, Mapped
<1>3. \A d, s : Within(s, d)' <=> Within(s, d)
  BY <1>1, SoundKept
<1>4. FileSound'
  BY <1>1, SoundKept DEF StatsInv, FileSound
<1>5. CASE Reset(c)
  <2> DEFINE s == [start |-> 0, counts |-> Zero, warns |-> stats[c].warns]
  <2>1. stats' = [stats EXCEPT ![c] = s] /\ notice' = [notice EXCEPT ![c] = "reset"]
    BY <1>5 DEF Reset, FreshCounts
  <2>2. Set(c, Shared(0))
    BY <1>5 DEF Reset
  <2>3. DOMAIN cache' = Channels /\ CacheSound' /\ FlushSound'
    BY <1>1, <2>2, SetKeeps
  <2>4. s \in SessionStats
    BY <1>2, Bounds DEF SessionStats, Zero, Counts
  <2>5. Within(s, c)
    <3>1. s.start <= session[c]
      <4>1. session[c] \in 0 .. MaxSessions
        BY DEF StatsInv, Mapped
      <4>2. QED
        BY <4>1, Bounds
    <3>2. ASSUME NEW n \in 0 .. MaxSessions PROVE s.counts[n] + s.warns[n] <= happened[c][n]
      <4>1. stats[c].counts[n] \in Nat /\ stats[c].warns[n] \in Nat
        BY <1>2 DEF SessionStats, Counts
      <4>2. happened[c] \in Counts
        BY DEF StatsInv, Mapped
      <4>3. happened[c][n] \in Nat
        BY <4>2 DEF Counts
      <4>4. stats[c].counts[n] + stats[c].warns[n] <= happened[c][n]
        BY <1>2 DEF Within
      <4>5. s.counts[n] = 0
        BY DEF Zero
      <4>6. QED
        BY <4>1, <4>3, <4>4, <4>5
    <3>3. QED
      BY <3>1, <3>2 DEF Within
  <2> HIDE DEF s
  <2>6. Mapped'
    BY <1>1, <2>1, <2>3, <2>4 DEF StatsInv, Mapped
  <2>7. \A d \in Channels : Within(stats'[d], d)
    BY <2>1, <2>5 DEF StatsInv, Mapped
  <2>8. \A d \in Channels : Within(stats[d], d)'
    BY <1>1, <2>7 DEF Within
  <2>9. QED
    BY <1>4, <2>3, <2>6, <2>8 DEF StatsInv
<1>6. CASE Tick(c)
  <2>1. Set(c, Copied(stats[c])) /\ UNCHANGED <<notice, stats>>
    BY <1>6 DEF Tick, GetStatsCopy
  <2>2. Copied(stats[c]).maps = "copied" /\ Copied(stats[c]).stats = stats[c]
    BY DEF Copied
  <2>3. DOMAIN cache' = Channels /\ CacheSound' /\ FlushSound'
    BY <1>1, <1>2, <2>1, <2>2, SetKeeps
  <2>4. Mapped'
    BY <1>1, <2>1, <2>3 DEF StatsInv, Mapped
  <2>5. \A d \in Channels : Within(stats[d], d)'
    BY <1>1, <2>1 DEF StatsInv, Within
  <2>6. QED
    BY <1>4, <2>3, <2>4, <2>5 DEF StatsInv
<1>7. QED
  BY <1>5, <1>6

\* The start of the session that is on, by its notification or by the loop.
LEMMA StartKeeps ==
    ASSUME StatsInv, NEW c \in Channels, SetStartTime(c) \/ SyncStart(c)
    PROVE  StatsInv'
<1>1. UNCHANGED <<session, happened, cache, flush, file, up, crashes>>
  BY DEF SetStartTime, SyncStart, procVars
<1>2. stats' = [stats EXCEPT ![c].start = session[c]]
  BY DEF SetStartTime, SyncStart
<1>3. stats[c] \in SessionStats /\ Within(stats[c], c) /\ session[c] \in 0 .. MaxSessions
  BY DEF StatsInv, Mapped
<1> DEFINE s == [stats[c] EXCEPT !.start = session[c]]
<1>4. s \in SessionStats /\ Within(s, c)
  BY <1>3, Bounds DEF SessionStats, Within
<1>5. stats' = [stats EXCEPT ![c] = s]
  BY <1>2
<1> HIDE DEF s
<1>6. notice' \in [Channels -> {"none", "sent", "reset"}] /\ once' \subseteq Channels
  BY DEF SetStartTime, SyncStart, procVars, StatsInv, Mapped
<1>7. Mapped'
  BY <1>1, <1>4, <1>5, <1>6 DEF StatsInv, Mapped
<1>8. \A d \in Channels : Within(stats'[d], d)
  BY <1>4, <1>5 DEF StatsInv, Mapped
<1>9. \A d \in Channels : Within(stats[d], d)'
  BY <1>1, <1>8 DEF Within
<1>10. CacheSound' /\ FlushSound' /\ FileSound'
  <2>1. \A d, t : Within(t, d)' <=> Within(t, d)
    BY <1>1, SoundKept
  <2>2. \A data : Sound(data)' <=> Sound(data)
    BY <1>1, SoundKept
  <2>3. CacheSound'
    BY <1>1, <2>1 DEF StatsInv, CacheSound
  <2>4. FlushSound' /\ FileSound'
    BY <1>1, <2>2 DEF StatsInv, FlushSound, FileSound
  <2>5. QED
    BY <2>3, <2>4
<1>11. QED
  BY <1>7, <1>9, <1>10 DEF StatsInv

\* One more of a session.
LEMMA CountedOneMore ==
    ASSUME NEW f \in Counts, NEW k \in 0 .. MaxSessions
    PROVE  /\ [f EXCEPT ![k] = f[k] + 1] \in Counts
           /\ \A n \in 0 .. MaxSessions :
                 [f EXCEPT ![k] = f[k] + 1][n] = f[n] + IF n = k THEN 1 ELSE 0
<1> DEFINE F == [f EXCEPT ![k] = f[k] + 1]
<1>1. f \in [0 .. MaxSessions -> Nat]
  BY DEF Counts
<1>2. \A n \in 0 .. MaxSessions : f[n] \in Nat
  BY <1>1
<1>3. ASSUME NEW n \in 0 .. MaxSessions PROVE F[n] = f[n] + IF n = k THEN 1 ELSE 0
  <2>1. CASE n = k
    BY <1>1, <1>2, <2>1
  <2>2. CASE n # k
    BY <1>1, <1>2, <2>2
  <2>3. QED
    BY <2>1, <2>2
<1>4. f[k] + 1 \in Nat
  BY <1>2
<1>5. F \in [0 .. MaxSessions -> Nat]
  BY <1>1, <1>4
<1>6. QED
  BY <1>3, <1>5 DEF Counts

\* One more is counted, where it happened.
LEMMA CountKeeps ==
    ASSUME StatsInv, NEW c \in Channels, AddMessage(c) \/ AddWarn(c)
    PROVE  StatsInv'
<1>1. UNCHANGED <<session, notice, once, cache, flush, file, up, crashes>>
  BY DEF AddMessage, AddWarn, Counted
<1> DEFINE k == session[c]
           h == [happened[c] EXCEPT ![k] = happened[c][k] + 1]
<1>2. k \in 0 .. MaxSessions /\ happened[c] \in Counts /\ stats[c] \in SessionStats
  BY DEF StatsInv, Mapped
<1>3. happened' = [happened EXCEPT ![c] = h]
  BY DEF AddMessage, AddWarn, Counted
<1>4. h \in Counts /\ \A n \in 0 .. MaxSessions : h[n] = happened[c][n] + IF n = k THEN 1 ELSE 0
  BY <1>2, CountedOneMore
<1>5. /\ happened' \in [Channels -> Counts]
      /\ \A d \in Channels, n \in 0 .. MaxSessions : happened[d][n] <= happened'[d][n]
  <2>1. happened' \in [Channels -> Counts]
    BY <1>3, <1>4 DEF StatsInv, Mapped
  <2>2. ASSUME NEW d \in Channels, NEW n \in 0 .. MaxSessions
        PROVE  happened[d][n] <= happened'[d][n]
    <3>1. happened[d] \in Counts
      BY DEF StatsInv, Mapped
    <3>2. happened[d][n] \in Nat
      BY <3>1 DEF Counts
    <3>3. happened'[d] = IF d = c THEN h ELSE happened[d]
      BY <1>3 DEF StatsInv, Mapped
    <3>4. QED
      BY <1>4, <3>2, <3>3
  <2>3. QED
    BY <2>1, <2>2
<1>6. \A d \in Channels : session[d] <= session'[d]
  <2>1. \A d \in Channels : session[d] \in 0 .. MaxSessions
    BY DEF StatsInv, Mapped
  <2>2. \A d \in Channels : session[d] <= session[d]
    BY <2>1
  <2>3. QED
    BY <1>1, <2>2
<1>7. /\ \A d \in Channels, t \in SessionStats : Within(t, d) => Within(t, d)'
      /\ CacheSound' /\ FlushSound' /\ FileSound'
  <2>1. session' \in [Channels -> 0 .. MaxSessions]
    BY <1>1 DEF StatsInv, Mapped
  <2>2. QED
    BY <1>1, <1>5, <1>6, <2>1, SoundStays
<1>8. \E s \in SessionStats :
         /\ stats' = [stats EXCEPT ![c] = s]
         /\ s.start = stats[c].start
         /\ \A n \in 0 .. MaxSessions :
               s.counts[n] + s.warns[n]
                 = stats[c].counts[n] + stats[c].warns[n] + IF n = k THEN 1 ELSE 0
  <2>0. /\ stats[c].start \in 0 .. MaxSessions
        /\ stats[c].counts \in Counts /\ stats[c].warns \in Counts
    BY <1>2 DEF SessionStats
  <2>1. CASE AddMessage(c)
    <3> DEFINE f == [stats[c].counts EXCEPT ![k] = stats[c].counts[k] + 1]
               s == [stats[c] EXCEPT !.counts = f]
    <3>1. f \in Counts
      BY <1>2, <2>0, CountedOneMore
    <3>2. \A n \in 0 .. MaxSessions :
             f[n] = stats[c].counts[n] + IF n = k THEN 1 ELSE 0
      BY <1>2, <2>0, CountedOneMore
    <3>3. stats' = [stats EXCEPT ![c] = s]
      BY <2>1 DEF AddMessage, Counted
    <3> HIDE DEF f
    <3>4. s \in SessionStats
      BY <1>2, <3>1 DEF SessionStats
    <3>5. s.start = stats[c].start /\ s.counts = f /\ s.warns = stats[c].warns
      BY <1>2 DEF SessionStats
    <3> HIDE DEF s
    <3>6. ASSUME NEW n \in 0 .. MaxSessions
          PROVE  s.counts[n] + s.warns[n]
                   = stats[c].counts[n] + stats[c].warns[n] + IF n = k THEN 1 ELSE 0
      <4>1. stats[c].counts[n] \in Nat /\ stats[c].warns[n] \in Nat
        BY <2>0 DEF Counts
      <4>2. QED
        BY <3>2, <3>5, <4>1
    <3>7. QED
      BY <3>3, <3>4, <3>5, <3>6
  <2>2. CASE AddWarn(c)
    <3> DEFINE f == [stats[c].warns EXCEPT ![k] = stats[c].warns[k] + 1]
               s == [stats[c] EXCEPT !.warns = f]
    <3>1. f \in Counts
      BY <1>2, <2>0, CountedOneMore
    <3>2. \A n \in 0 .. MaxSessions :
             f[n] = stats[c].warns[n] + IF n = k THEN 1 ELSE 0
      BY <1>2, <2>0, CountedOneMore
    <3>3. stats' = [stats EXCEPT ![c] = s]
      BY <2>2 DEF AddWarn, Counted
    <3> HIDE DEF f
    <3>4. s \in SessionStats
      BY <1>2, <3>1 DEF SessionStats
    <3>5. s.start = stats[c].start /\ s.warns = f /\ s.counts = stats[c].counts
      BY <1>2 DEF SessionStats
    <3> HIDE DEF s
    <3>6. ASSUME NEW n \in 0 .. MaxSessions
          PROVE  s.counts[n] + s.warns[n]
                   = stats[c].counts[n] + stats[c].warns[n] + IF n = k THEN 1 ELSE 0
      <4>1. stats[c].counts[n] \in Nat /\ stats[c].warns[n] \in Nat
        BY <2>0 DEF Counts
      <4>2. QED
        BY <3>2, <3>5, <4>1
    <3>7. QED
      BY <3>3, <3>4, <3>5, <3>6
  <2>3. QED
    BY <2>1, <2>2
<1>9. PICK s \in SessionStats :
         /\ stats' = [stats EXCEPT ![c] = s]
         /\ s.start = stats[c].start
         /\ \A n \in 0 .. MaxSessions :
               s.counts[n] + s.warns[n]
                 = stats[c].counts[n] + stats[c].warns[n] + IF n = k THEN 1 ELSE 0
  BY <1>8
<1>10. Mapped'
  BY <1>1, <1>5, <1>9 DEF StatsInv, Mapped
<1>11. Within(s, c)'
  <2>1. s.start <= session'[c]
    BY <1>1, <1>9 DEF StatsInv, Within
  <2>2. ASSUME NEW n \in 0 .. MaxSessions PROVE s.counts[n] + s.warns[n] <= happened'[c][n]
    <3>1. /\ stats[c].counts[n] \in Nat /\ stats[c].warns[n] \in Nat
          /\ happened[c][n] \in Nat
      BY <1>2 DEF SessionStats, Counts
    <3>2. stats[c].counts[n] + stats[c].warns[n] <= happened[c][n]
      BY DEF StatsInv, Within
    <3>3. happened'[c] = h
      BY <1>3 DEF StatsInv, Mapped
    <3> HIDE DEF h, k
    <3>4. QED
      BY <1>4, <1>9, <3>1, <3>2, <3>3
  <2>3. QED
    BY <2>1, <2>2 DEF Within
<1>12. \A d \in Channels : Within(stats[d], d)'
  <2> SUFFICES ASSUME NEW d \in Channels PROVE Within(stats[d], d)'
    OBVIOUS
  <2>1. CASE d = c
    <3>1. stats'[d] = s
      BY <1>9, <2>1 DEF StatsInv, Mapped
    <3>2. QED
      BY <1>11, <2>1, <3>1 DEF Within
  <2>2. CASE d # c
    <3>1. stats'[d] = stats[d] /\ stats[d] \in SessionStats /\ Within(stats[d], d)
      BY <1>9, <2>2 DEF StatsInv, Mapped
    <3>2. \A t \in SessionStats : Within(t, d) => Within(t, d)'
      BY <1>7
    <3>3. QED
      BY <3>1, <3>2
  <2>3. QED
    BY <2>1, <2>2
<1>13. QED
  BY <1>7, <1>10, <1>12 DEF StatsInv

\* A goroutine goes on with its flush, or ends.
LEMMA ProceedKeeps ==
    ASSUME StatsInv, UNCHANGED <<session, happened>>,
           NEW g \in BagToSet(flush), NEW states, IsABag(states), Proceed(g, states),
           \A h \in BagToSet(states) : /\ h.at \in {"begun", "encoded", "opened"}
                                       /\ h.at # "begun" => Sound(h.data)
    PROVE  FlushSound'
<1>1. IsABag(Single(g))
  BY BagOfOne
<1>2. IsABag(flush (-) Single(g)) /\ BagToSet(flush (-) Single(g)) \subseteq BagToSet(flush)
  BY <1>1, BagTaken DEF StatsInv, FlushSound
<1>3. /\ IsABag(flush')
      /\ \A h \in BagToSet(flush') : h \in BagToSet(flush) \/ h \in BagToSet(states)
  BY <1>2, BagAdded DEF Proceed
<1>4. \A data : Sound(data)' <=> Sound(data)
  BY SoundKept
<1>5. QED
  BY <1>3, <1>4 DEF StatsInv, FlushSound

\* The steps of a flush.
LEMMA FlushKeeps ==
    ASSUME StatsInv, Snapshot \/ Truncate \/ Write
    PROVE  StatsInv'
<1>1. UNCHANGED <<session, happened, notice, stats, once, cache, up, crashes>>
  BY DEF Snapshot, Truncate, Write, procVars
<1>2. Mapped'
  BY <1>1 DEF StatsInv, Mapped
<1>3. /\ \A c, s : Within(s, c)' <=> Within(s, c)
      /\ \A data : Sound(data)' <=> Sound(data)
  BY <1>1, SoundKept
<1>4. \A c \in Channels : Within(stats[c], c)'
  BY <1>1, <1>3 DEF StatsInv
<1>5. CacheSound'
  BY <1>1, <1>3 DEF StatsInv, CacheSound
<1>6. FlushSound' /\ FileSound'
  <2>1. CASE Snapshot
    <3> DEFINE data == [c \in {d \in Channels : cache[d] # NoEntry} |-> Entry(c)]
               h == [at |-> "encoded", data |-> data]
    <3>1. PICK g \in At("begun") : Proceed(g, Single(h))
      BY <2>1 DEF Snapshot
    <3>2. UNCHANGED file
      BY <2>1 DEF Snapshot, procVars
    <3>3. Sound(data)
      BY EntrySound DEF Sound
    <3>4. h.at = "encoded" /\ h.data = data
      OBVIOUS
    <3> HIDE DEF h, data
    <3>5. IsABag(Single(h)) /\ BagToSet(Single(h)) = {h}
      BY BagOfOne
    <3>6. g \in BagToSet(flush)
      BY DEF At
    <3>7. FlushSound'
      BY <1>1, <3>1, <3>3, <3>4, <3>5, <3>6, ProceedKeeps
    <3>8. FileSound'
      BY <1>3, <3>2 DEF StatsInv, FileSound
    <3>9. QED
      BY <3>7, <3>8
  <2>2. CASE Truncate
    <3>1. PICK g \in At("encoded") : Proceed(g, Single([g EXCEPT !.at = "opened"]))
      BY <2>2 DEF Truncate
    <3>2. file' \in Unreadable
      BY <2>2 DEF Truncate, Opened, Unreadable
    <3> DEFINE h == [g EXCEPT !.at = "opened"]
    <3>3. g \in BagToSet(flush) /\ g.at = "encoded"
      BY DEF At
    <3>4. Sound(g.data)
      BY <3>3 DEF StatsInv, FlushSound
    <3>5. h.at \in {"begun", "encoded", "opened"} /\ (h.at # "begun" => Sound(h.data))
      BY <3>4
    <3>6. Proceed(g, Single(h))
      BY <3>1
    <3> HIDE DEF h
    <3>7. IsABag(Single(h)) /\ BagToSet(Single(h)) = {h}
      BY BagOfOne
    <3>8. FlushSound'
      BY <1>1, <3>3, <3>5, <3>6, <3>7, ProceedKeeps
    <3>9. FileSound'
      BY <3>2 DEF FileSound
    <3>10. QED
      BY <3>8, <3>9
  <2>3. CASE Write
    <3>1. PICK g \in At("opened") : file' \in Over(file, g.data) /\ Proceed(g, EmptyBag)
      BY <2>3 DEF Write
    <3>2. g \in BagToSet(flush) /\ g.at = "opened"
      BY DEF At
    <3>3. Sound(g.data)
      BY <3>2 DEF StatsInv, FlushSound
    <3>4. file' = g.data \/ file' \in Unreadable
      BY <3>1 DEF Over, Unreadable
    <3>5. FileSound'
      BY <1>3, <3>3, <3>4 DEF FileSound
    <3>6. IsABag(EmptyBag) /\ BagToSet(EmptyBag) = {}
      BY BagOfOne
    <3>7. FlushSound'
      BY <1>1, <3>1, <3>2, <3>6, ProceedKeeps
    <3>8. QED
      BY <3>5, <3>7
  <2>4. QED
    BY <2>1, <2>2, <2>3
<1>7. QED
  BY <1>2, <1>4, <1>5, <1>6 DEF StatsInv

\* The process dies, with its flushes, and comes back with what the file gives.
LEMMA CrashKeeps ==
    ASSUME StatsInv, Crash \/ Restart
    PROVE  StatsInv'
<1>1. UNCHANGED <<session, happened, file>>
  BY DEF Crash, Restart
<1>2. /\ \A c, s : Within(s, c)' <=> Within(s, c)
      /\ \A data : Sound(data)' <=> Sound(data)
  BY <1>1, SoundKept
<1>3. FileSound'
  BY <1>1, <1>2 DEF StatsInv, FileSound
<1>4. CASE Crash
  <2>1. UNCHANGED <<stats, once, cache>> /\ flush' = EmptyBag
    BY <1>4 DEF Crash
  <2>2. up' \in BOOLEAN /\ notice' \in [Channels -> {"none", "sent", "reset"}]
    BY <1>4 DEF Crash
  <2>3. crashes' \in 0 .. MaxCrashes
    <3>1. crashes \in 0 .. MaxCrashes /\ crashes < MaxCrashes /\ crashes' = crashes + 1
      BY <1>4 DEF Crash, StatsInv, Mapped
    <3>2. QED
      BY <3>1, SessionStatsAssumption
  <2>4. Mapped'
    BY <1>1, <2>1, <2>2, <2>3 DEF StatsInv, Mapped
  <2>5. (\A c \in Channels : Within(stats[c], c)') /\ CacheSound'
    BY <1>1, <1>2, <2>1 DEF StatsInv, CacheSound
  <2>6. FlushSound'
    BY <2>1, BagOfOne DEF FlushSound
  <2>7. QED
    BY <1>3, <2>4, <2>5, <2>6 DEF StatsInv
<1>5. CASE Restart
  <2> DEFINE data == IF file \in Unreadable THEN <<>> ELSE file
  <2>1. /\ stats' = [c \in Channels |-> Restored(c, data)]
        /\ cache' = [c \in Channels |-> IF c \in DOMAIN data
                                        THEN Shared(data[c].start) ELSE NoEntry]
        /\ up' = TRUE /\ once' = {} /\ UNCHANGED <<notice, flush, crashes>>
    BY <1>5 DEF Restart
  <2>2. Sound(data)
    BY DEF StatsInv, FileSound, Sound
  <2> HIDE DEF data
  <2>3. ASSUME NEW c \in Channels
        PROVE  Restored(c, data) \in SessionStats /\ Within(Restored(c, data), c)
    <3>1. CASE c \in DOMAIN data
      BY <2>2, <3>1 DEF Sound, Restored
    <3>2. CASE c \notin DOMAIN data
      <4>1. Restored(c, data) = NoStats
        BY <3>2 DEF Restored
      <4>2. NoStats \in SessionStats
        BY Bounds DEF NoStats, SessionStats, Zero, Counts
      <4>3. \A n \in 0 .. MaxSessions : happened[c][n] \in Nat
        BY DEF StatsInv, Mapped, Counts
      <4>4. session[c] \in 0 .. MaxSessions
        BY DEF StatsInv, Mapped
      <4>5. Within(NoStats, c)
        BY <4>3, <4>4, Bounds DEF Within, NoStats, Zero
      <4>6. QED
        BY <4>1, <4>2, <4>5
    <3>3. QED
      BY <3>1, <3>2
  <2>4. Mapped'
    BY <1>1, <2>1, <2>3 DEF StatsInv, Mapped
  <2>5. \A c \in Channels : Within(stats[c], c)'
    BY <1>2, <2>1, <2>3
  <2>6. CacheSound'
    <3> SUFFICES ASSUME NEW c \in Channels, c \in DOMAIN data
                 PROVE  \E n \in 0 .. session[c] : cache'[c] = Shared(n)
      BY <1>1, <2>1 DEF CacheSound
    <3>1. cache'[c] = Shared(data[c].start)
      BY <2>1
    <3>2. data[c].start \in 0 .. MaxSessions /\ data[c].start <= session[c]
      BY <2>2 DEF Sound, SessionStats, Within
    <3>3. session[c] \in 0 .. MaxSessions
      BY DEF StatsInv, Mapped
    <3>4. data[c].start \in 0 .. session[c]
      BY <3>2, <3>3, Bounds
    <3>5. QED
      BY <3>1, <3>4
  <2>7. FlushSound'
    BY <1>2, <2>1 DEF StatsInv, FlushSound
  <2>8. QED
    BY <1>3, <2>4, <2>5, <2>6, <2>7 DEF StatsInv
<1>6. QED
  BY <1>4, <1>5

\* One step of the streams, the counting, the cache, a flush or the process.
LEMMA StatsNextInv == StatsInv /\ [Next]_vars => StatsInv'
<1> SUFFICES ASSUME StatsInv, [Next]_vars PROVE StatsInv'
  OBVIOUS
<1>1. CASE UNCHANGED vars
  <2>1. UNCHANGED <<session, happened, notice, stats, once, cache, flush, file, up, crashes>>
    BY <1>1 DEF vars
  <2>2. /\ \A c, s : Within(s, c)' <=> Within(s, c)
        /\ \A data : Sound(data)' <=> Sound(data)
    BY <2>1, SoundKept
  <2>3. Mapped'
    BY <2>1 DEF StatsInv, Mapped
  <2>4. (\A c \in Channels : Within(stats[c], c)') /\ CacheSound'
    BY <2>1, <2>2 DEF StatsInv, CacheSound
  <2>5. FlushSound' /\ FileSound'
    BY <2>1, <2>2 DEF StatsInv, FlushSound, FileSound
  <2>6. QED
    BY <2>3, <2>4, <2>5 DEF StatsInv
<1>2. ASSUME NEW c \in Channels,
             \/ GoLive(c) \/ Reset(c) \/ SetStartTime(c) \/ SyncStart(c)
             \/ AddMessage(c) \/ AddWarn(c) \/ Tick(c)
      PROVE  StatsInv'
  BY <1>2, GoLiveKeeps, StoreKeeps, StartKeeps, CountKeeps
<1>3. CASE Snapshot \/ Truncate \/ Write \/ Crash \/ Restart
  BY <1>3, FlushKeeps, CrashKeeps
<1>4. QED
  BY <1>1, <1>2, <1>3 DEF Next

\* Wherever the process dies, however flushes interleave and whichever write
\* of the file comes last: no statistics hold more of a session than there was,
\* those of the program, of the cache and of the file alike
\* (stats.go:54-142, 190-249, cache.go:56-129).
THEOREM NothingEverInvented == Spec => []NothingInvented
<1>1. StatsInv => NothingInvented
  <2> SUFFICES ASSUME StatsInv PROVE NothingInvented
    OBVIOUS
  <2>1. TypeOK
    <3>1. file \in Unreadable \/ \A c \in DOMAIN file : file[c] \in SessionStats
      BY DEF StatsInv, FileSound, Sound
    <3>2. \A c \in Channels :
             \/ cache[c] = NoEntry
             \/ \E n \in 0 .. session[c] : cache[c] = Shared(n)
             \/ cache[c].maps = "copied" /\ cache[c].stats \in SessionStats
      BY DEF StatsInv, CacheSound
    <3>3. IsABag(flush) /\ \A g \in BagToSet(flush) : g.at \in {"begun", "encoded", "opened"}
      BY DEF StatsInv, FlushSound
    <3>4. QED
      BY <3>1, <3>2, <3>3 DEF StatsInv, Mapped, TypeOK
  <2>2. file \notin Unreadable => \A c \in DOMAIN file : Within(file[c], c)
    BY DEF StatsInv, FileSound, Sound
  <2>3. QED
    BY <2>1, <2>2 DEF StatsInv, NothingInvented
<1>2. QED
  BY <1>1, StatsInitInv, StatsNextInv, PTL DEF Spec
=============================================================================
