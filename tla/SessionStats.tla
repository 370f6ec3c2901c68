---------------------------- MODULE SessionStats ----------------------------
(***************************************************************************)
(* The statistics of a stream (domain/stream/stats.go) and the cache that  *)
(* keeps them on disk (infrastructure/storage/cache.go), which all the     *)
(* channels share.                                                         *)
(*                                                                         *)
(* Of the statistics are kept the start of the session, which stands for   *)
(* every field that is a value, the counts that Reset replaces and those   *)
(* it does not.  What is counted are messages and acts of moderators; how  *)
(* many of them and in which session they came is kept, not whose they     *)
(* are.  The intervals, the categories and the viewers are left out.       *)
(*                                                                         *)
(* The counts are Go maps.  An entry of the cache holds either its own     *)
(* copies of them ("copied") or the very maps the program counts in        *)
(* ("shared"), so that it changes with every count.                        *)
(*                                                                         *)
(* A flush writes the entries of all channels into one file, in place, in  *)
(* a goroutine nobody waits for.  The iteration over the cache and the     *)
(* encoding of what it found are one step: no property compares channels.  *)
(* A map that is encoded while it is counted in ends the process, which    *)
(* may die at any moment here.                                             *)
(***************************************************************************)
EXTENDS Naturals, Bags, Functions

CONSTANTS
    Channels,
    Empty, Torn,   \* contents of the file: nothing, two overlapping writes
    MaxFlushes,    \* model bound on goroutines in FlushToDisk
    MaxSessions,   \* model bound on the streams of a channel
    MaxCounted,    \* model bound on what is counted in a channel
    MaxCrashes     \* model bound on crashes

ASSUME SessionStatsAssumption ==
    /\ MaxSessions \in Nat /\ MaxCounted \in Nat /\ MaxCrashes \in Nat
    /\ MaxFlushes \in Nat /\ MaxFlushes >= 2

VARIABLES
    session,    \* Twitch: how many streams the channel has begun
    happened,   \* channel -> session -> what has been counted, for good
    notice,     \* stream.online: not there, sent, or its handler has reset
    stats,      \* Stats.stats of each channel
    once,       \* onceStart has been used
    cache,      \* the entries of Cache.outer
    flush,      \* the goroutines in FlushToDisk: a bag of their states
    file,       \* the content of cache/stats.json
    up, crashes

vars == <<session, happened, notice, stats, once, cache, flush, file, up, crashes>>
procVars == <<session, happened, file, up, crashes>>

Sessions == 1 .. MaxSessions

\* Session 0 is the time before the first stream, and the zero time.
Counts == [0 .. MaxSessions -> Nat]
Zero   == [s \in 0 .. MaxSessions |-> 0]

SessionStats == [start : 0 .. MaxSessions, counts : Counts, warns : Counts]
NoStats      == [start |-> 0, counts |-> Zero, warns |-> Zero]

\* Contents of the file that do not load.
Unreadable == {Empty, Torn}

NoEntry == [maps |-> "none"]
Begun   == [at |-> "begun"]

Total(h) == FoldFunction(+, 0, h)

-----------------------------------------------------------------------------
(* The cache.                                                              *)

\* What a reader of channel c's entry finds in it now.
Entry(c) ==
    IF cache[c].maps = "shared"
    THEN [stats[c] EXCEPT !.start = cache[c].start]
    ELSE cache[c].stats

Shared(start) == [maps |-> "shared", start |-> start]
Copied(s)     == [maps |-> "copied", stats |-> s]

\* getStatsCopy
GetStatsCopy(c) == Copied(stats[c])

\* So many goroutines that begin.
Starting(n) == [g \in {Begun} |-> n]

\* Set starts a flush, and another when it replaces an entry: otter reports
\* the value replaced as deleted.
FlushesOf(c) == IF cache[c] = NoEntry THEN 1 ELSE 2

Set(c, entry) ==
    /\ BagCardinality(flush) + FlushesOf(c) <= MaxFlushes
    /\ cache' = [cache EXCEPT ![c] = entry]
    /\ flush' = flush (+) Starting(FlushesOf(c))

Single(state) == SetToBag({state})
At(at) == {g \in BagToSet(flush) : g.at = at}
Proceed(g, states) == flush' = (flush (-) Single(g)) (+) states

\* FlushToDisk encodes what the cache holds now, ...
Snapshot ==
    /\ \E g \in At("begun") :
          Proceed(g, Single([at   |-> "encoded",
                             data |-> [c \in {d \in Channels : cache[d] # NoEntry} |-> Entry(c)]]))
    /\ UNCHANGED <<procVars, notice, stats, once, cache>>

\* Mutant: the file is opened and not emptied.
KeptOpen == UNCHANGED file

\* ... and os.WriteFile empties the file ...
Opened == file' = Empty

Truncate ==
    /\ \E g \in At("encoded") : Proceed(g, Single([g EXCEPT !.at = "opened"]))
    /\ Opened
    /\ UNCHANGED <<session, happened, up, crashes, notice, stats, once, cache>>

\* ... and writes from its beginning, over what another flush has written
\* there meanwhile: of that an end may be left.
Over(old, data) == IF old \in {Empty, data} THEN {data} ELSE {data, Torn}

Write ==
    /\ \E g \in At("opened") :
          /\ file' \in Over(file, g.data)
          /\ Proceed(g, EmptyBag)
    /\ UNCHANGED <<session, happened, up, crashes, notice, stats, once, cache>>

-----------------------------------------------------------------------------
(* The statistics.                                                         *)

\* Twitch: a stream begins, not before the handling of the last is over.  A
\* process that is down is not told.
GoLive(c) ==
    /\ notice[c] = "none"
    /\ session[c] < MaxSessions
    /\ session' = [session EXCEPT ![c] = @ + 1]
    /\ notice' = IF up THEN [notice EXCEPT ![c] = "sent"] ELSE notice
    /\ UNCHANGED <<happened, stats, once, cache, flush, file, up, crashes>>

\* The maps Reset makes; that of the warnings it forgets.
FreshCounts == Zero

\* stream.online: Reset, which stores the new maps themselves, ...
Reset(c) ==
    /\ up
    /\ notice[c] = "sent"
    /\ notice' = [notice EXCEPT ![c] = "reset"]
    /\ stats' = [stats EXCEPT ![c] = [start  |-> 0,
                                      counts |-> FreshCounts,
                                      warns  |-> stats[c].warns]]
    /\ Set(c, Shared(0))
    /\ UNCHANGED <<procVars, once>>

\* ... and SetStartTime.
SetStartTime(c) ==
    /\ up
    /\ notice[c] = "reset"
    /\ notice' = [notice EXCEPT ![c] = "none"]
    /\ stats' = [stats EXCEPT ![c].start = session[c]]
    /\ UNCHANGED <<procVars, once, cache, flush>>

\* The 30 s loop, the first time it finds the stream live.
SyncStart(c) ==
    /\ up
    /\ session[c] > 0
    /\ c \notin once
    /\ once' = once \cup {c}
    /\ stats' = [stats EXCEPT ![c].start = session[c]]
    /\ UNCHANGED <<procVars, notice, cache, flush>>

\* AddMessage, AddDeleted, AddTimeout, AddBan; AddWarn.
Counted(c, field) ==
    /\ up
    /\ Total(happened[c]) < MaxCounted
    /\ happened' = [happened EXCEPT ![c][session[c]] = @ + 1]
    /\ stats' = [stats EXCEPT ![c][field][session[c]] = @ + 1]
    /\ UNCHANGED <<session, notice, once, cache, flush, file, up, crashes>>

AddMessage(c) == Counted(c, "counts")
AddWarn(c)    == Counted(c, "warns")

\* The ticker of every minute.
Tick(c) ==
    /\ up
    /\ Set(c, GetStatsCopy(c))
    /\ UNCHANGED <<procVars, notice, stats, once>>

-----------------------------------------------------------------------------

Crash ==
    /\ up
    /\ crashes < MaxCrashes
    /\ crashes' = crashes + 1
    /\ up' = FALSE
    /\ notice' = [c \in Channels |-> "none"]
    /\ flush' = EmptyBag
    /\ UNCHANGED <<session, happened, stats, once, cache, file>>

\* Mutant: what is loaded is added to what there was.
RestoredTwice(c, data) ==
    IF c \in DOMAIN data
    THEN [data[c] EXCEPT !.counts = [s \in 0 .. MaxSessions |-> 2 * data[c].counts[s]]]
    ELSE NoStats

\* newStats: what loadFromDisk has put into the cache.
Restored(c, data) == IF c \in DOMAIN data THEN data[c] ELSE NoStats

\* A file that does not load is ignored.
Restart ==
    /\ ~ up
    /\ up' = TRUE
    /\ LET data == IF file \in Unreadable THEN <<>> ELSE file
       IN  /\ stats' = [c \in Channels |-> Restored(c, data)]
           /\ cache' = [c \in Channels |-> IF c \in DOMAIN data
                                           THEN Shared(data[c].start) ELSE NoEntry]
    /\ once' = {}
    /\ UNCHANGED <<session, happened, notice, flush, file, crashes>>

Init ==
    /\ session = [c \in Channels |-> 0]
    /\ happened = [c \in Channels |-> Zero]
    /\ notice = [c \in Channels |-> "none"]
    /\ stats = [c \in Channels |-> NoStats]
    /\ once = {}
    /\ cache = [c \in Channels |-> NoEntry]
    /\ flush = EmptyBag
    /\ file = Empty
    /\ up = TRUE /\ crashes = 0

Next ==
    \/ \E c \in Channels :
          \/ GoLive(c) \/ Reset(c) \/ SetStartTime(c) \/ SyncStart(c)
          \/ AddMessage(c) \/ AddWarn(c) \/ Tick(c)
    \/ Snapshot \/ Truncate \/ Write
    \/ Crash \/ Restart

\* Tickers tick, goroutines go on.  The fairness of Tick and of Reset is strong
\* because the bound on flushes can hold them up, which nothing in the code
\* does.  Nothing is assumed of the stream, of what is counted in it, and of
\* the process coming back.
Fairness ==
    /\ \A c \in Channels : SF_vars(Tick(c)) /\ SF_vars(Reset(c)) /\ WF_vars(SetStartTime(c))
    /\ WF_vars(Snapshot) /\ WF_vars(Truncate) /\ WF_vars(Write)

Spec == Init /\ [][Next]_vars /\ Fairness

-----------------------------------------------------------------------------
(* Properties.                                                             *)

TypeOK ==
    /\ session \in [Channels -> 0 .. MaxSessions]
    /\ happened \in [Channels -> Counts]
    /\ notice \in [Channels -> {"none", "sent", "reset"}]
    /\ \A c \in Channels : stats[c] \in SessionStats
    /\ once \subseteq Channels
    /\ \A c \in Channels :
          \/ cache[c] = NoEntry
          \/ \E n \in 0 .. session[c] : cache[c] = Shared(n)
          \/ cache[c].maps = "copied" /\ cache[c].stats \in SessionStats
    /\ \A g \in BagToSet(flush) : g.at \in {"begun", "encoded", "opened"}
    /\ IsABag(flush)
    /\ file \in Unreadable \/ \A c \in DOMAIN file : file[c] \in SessionStats
    /\ up \in BOOLEAN /\ crashes \in 0 .. MaxCrashes

\* Nothing is counted twice, and nothing is counted for a stream to come:
\* whatever flushes, crashes and restarts do, and although the maps of an entry
\* may be those the program counts in, the statistics a channel has, and those
\* it would get back from the file, hold of no session more than there was.
Within(s, c) ==
    /\ s.start <= session[c]
    /\ \A n \in 0 .. MaxSessions : s.counts[n] + s.warns[n] <= happened[c][n]

NothingInvented ==
    /\ TypeOK
    /\ \A c \in Channels : Within(stats[c], c)
    /\ file \notin Unreadable => \A c \in DOMAIN file : Within(file[c], c)

\* In a process that stays up the file comes to hold the statistics of all
\* channels again and again, and in the end nothing else but emptiness while it
\* is being written: an older snapshot written last, or two written over each
\* other, are made good.
FileCatchesUp ==
    <>[]up => /\ <>[](file \in {Empty, stats})
              /\ []<>(file = stats)

\* Broken by the code (README): a crash while the file is written leaves it
\* unreadable, and the statistics of all channels are lost.
FileLoads == ~ up => file \notin Unreadable \/ \A c \in Channels : cache[c] = NoEntry

\* Broken by the code (README): a stream that begins while the bot is down
\* inherits the counts of the one before, under its own start.
OwnSession ==
    \A c \in Channels : up /\ notice[c] = "none" =>
        \A n \in Sessions : stats[c].counts[n] > 0 => stats[c].start \in {0, n}

\* Broken by the code (README): Reset keeps the counts of warnings.
WarnsOwnSession ==
    \A c \in Channels : up /\ notice[c] = "none" =>
        \A n \in Sessions : stats[c].warns[n] > 0 => stats[c].start \in {0, n}
=============================================================================
