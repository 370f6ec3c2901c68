----------------------------- MODULE SpamFlood -----------------------------
(***************************************************************************)
(* How repeated messages of one user are noticed: Message.Check stores the *)
(* message (adapters/message/message.go) and Checker.checkSpam counts the  *)
(* stored ones it resembles (adapters/message/checker/checker.go), over    *)
(* the two-level cache of infrastructure/storage/store.go.  Messages are   *)
(* handled by several EventSub workers at once.                            *)
(*                                                                         *)
(* The messages are those that reach checkSpam and are decided by its      *)
(* count: no command, no banword, no emote-only text, no exception, no     *)
(* overlong word, and the sender is neither moderator nor trusted.  Two    *)
(* messages resemble each other when they are of one class.  What is       *)
(* punished and how hard is the business of Escalation.                    *)
(***************************************************************************)
EXTENDS Naturals, FiniteSets, SequencesExt

CONSTANTS
    MaxMsgs,       \* bound: messages of the user
    Texts,         \* the classes of similar messages
    Inners,        \* identities of inner caches
    NoCache,
    Concurrency,   \* number of EventSub workers
    Limit,         \* settings.MessageLimit
    MinGap,        \* settings.MinGapMessages
    IsVip,         \* whether the user is a VIP
    Mode,          \* Spam.Mode: 1 always, 2 online, 3 offline
    Settings,      \* the initial value of settings
    Changing,      \* the settings that change while messages are handled
    MaxForgotten   \* bound: ForgetMessages stops at this many forgotten messages

ASSUME FloodAssumption ==
    /\ MaxMsgs \in Nat
    /\ Concurrency \in Nat \ {0}
    /\ Limit \in Nat \ {0, 1} /\ MinGap \in Nat
    /\ IsVip \in BOOLEAN /\ MaxForgotten \in Nat
    /\ Mode \in 0 .. 3
    /\ Settings \in [{"bot", "default", "vip", "paused", "live"} -> BOOLEAN]
    /\ Changing \subseteq DOMAIN Settings
    /\ NoCache \notin Inners

VARIABLES
    settings,   \* the bot's and the anti-spam's switches, pause, stream
    outer,      \* the user's inner cache, or NoCache
    inner,      \* inner cache -> the messages it holds
    stage,      \* how far each message has come
    ref,        \* the inner cache its worker has looked up
    ignore,     \* messages stored with IgnoreAntispam
    text,       \* the class of each message that has arrived
    missed,     \* messages whose check was skipped
    forgotten,  \* messages that expired, or are older than an expiry of the cache
    punished    \* messages found to be spam

floodVars == <<settings, outer, inner, stage, ref, ignore, text, missed, forgotten, punished>>

Msgs == 1 .. MaxMsgs    \* numbered in the order they arrive

FloodInit ==
    /\ settings = Settings
    /\ outer = NoCache
    /\ inner = [i \in Inners |-> {}]
    /\ stage = [m \in Msgs |-> "new"]
    /\ ref = [m \in Msgs |-> NoCache]
    /\ ignore = {}
    /\ text = <<>>
    /\ missed = {}
    /\ forgotten = {}
    /\ punished = {}

InFlight == {m \in Msgs : stage[m] \notin {"new", "done"}}
Visible  == IF outer = NoCache THEN {} ELSE inner[outer]

\* An inner cache that neither the outer one nor a worker holds is garbage.
Kept(f) ==
    [i \in Inners |-> IF i = outer' \/ (\E m \in Msgs : ref'[m] = i) THEN f[i] ELSE {}]

\* The worker's variable that held an inner cache goes out of scope.
Release(m) == ref' = [ref EXCEPT ![m] = NoCache]

Goto(m, from, to) == stage[m] = from /\ stage' = [stage EXCEPT ![m] = to]

-----------------------------------------------------------------------------
(* Message.Check: the flag is decided from the default settings, whoever   *)
(* the sender is; then messages.Push.                                      *)

IgnoreAntispam ==
    ~ settings["bot"] \/ settings["paused"] \/ ~ settings["default"]

\* getInner: a hit leaves the caches alone, a miss makes a new inner cache
\* in a later step.
GetInner(m, from, hit, miss) ==
    /\ Goto(m, from, IF outer = NoCache THEN miss ELSE hit)
    /\ ref' = [ref EXCEPT ![m] = outer]

MakeInner(m, from, to) ==
    /\ Goto(m, from, to)
    /\ \E i \in Inners \ ({outer} \cup {ref[n] : n \in Msgs}) :
          /\ outer' = i
          /\ ref' = [ref EXCEPT ![m] = i]
          /\ inner' = Kept(inner)
    /\ UNCHANGED <<settings, ignore, text, missed, forgotten, punished>>

Arrive(m) ==
    /\ Cardinality(InFlight) < Concurrency
    /\ Len(text) = m - 1
    /\ \E k \in Texts : text' = Append(text, k)
    /\ ignore' = IF IgnoreAntispam THEN ignore \cup {m} ELSE ignore
    /\ GetInner(m, "new", "set", "make for push")
    /\ UNCHANGED <<settings, outer, inner, missed, forgotten, punished>>

Store(m) ==
    /\ Goto(m, "set", "check")
    /\ Release(m)
    /\ UNCHANGED <<settings, outer, ignore, text, missed, forgotten, punished>>
    /\ inner' = Kept([inner EXCEPT ![ref[m]] = @ \cup {m}])

-----------------------------------------------------------------------------
(* Checker.Check and checkSpam.                                            *)

ModeFits ==
    ~ (Mode \in {0, 2} /\ ~ settings["live"]) /\ ~ (Mode = 3 /\ settings["live"])

CheckApplies ==
    /\ settings["bot"]
    /\ IF IsVip THEN settings["vip"] ELSE settings["default"]
    /\ ~ settings["paused"]
    /\ ModeFits

Skip(m) ==
    /\ Goto(m, "check", "done")
    /\ ~ CheckApplies
    /\ missed' = missed \cup {m}
    /\ UNCHANGED <<settings, outer, inner, ref, ignore, text, forgotten, punished>>

Examine(m) ==
    /\ CheckApplies
    /\ GetInner(m, "check", "count", "make for count")
    /\ UNCHANGED <<settings, outer, inner, ignore, text, missed, forgotten, punished>>

\* Mutant: messages stored as to be ignored count too.
SeenIgnored(m, acc, n) ==
    IF text[n] # text[m] THEN [acc EXCEPT !.gap = @ + 1]
    ELSE [count |-> acc.count + IF acc.gap < MinGap THEN 1 ELSE 0, gap |-> 0]

\* One message of the iteration: a similar one counts unless MinGap others
\* have been met since the last similar one.
Seen(m, acc, n) ==
    IF n \in ignore THEN acc
    ELSE IF text[n] # text[m] THEN [acc EXCEPT !.gap = @ + 1]
    ELSE [count |-> acc.count + IF acc.gap < MinGap THEN 1 ELSE 0, gap |-> 0]

\* What has been counted after each message of the iteration.
Counted(m, order) ==
    LET counted[i \in 0 .. Len(order)] ==
          IF i = 0 THEN [count |-> 0, gap |-> 0]
          ELSE Seen(m, counted[i - 1], order[i])
    IN  counted

\* Mutant: the message itself is left out.
CountSpamOfOthers(m, order) ==
    LET others == SelectSeq(order, LAMBDA n : n # m)
    IN  Counted(m, others)[Len(others)].count

CountSpam(m, order) == Counted(m, order)[Len(order)].count

\* ForEach goes through a hash table: any order may come out.
Count(m) ==
    /\ stage[m] = "count"
    /\ \E order \in SetToSeqs(inner[ref[m]]) :
          Goto(m, "count", IF CountSpam(m, order) >= Limit THEN "clear" ELSE "done")
    /\ Release(m)
    /\ UNCHANGED <<settings, outer, ignore, text, missed, forgotten, punished>>
    /\ inner' = Kept(inner)

\* The punishment is decided, then ClearKey forgets the user's messages.
Clear(m) ==
    /\ Goto(m, "clear", "done")
    /\ punished' = punished \cup {m}
    /\ outer' = NoCache
    /\ UNCHANGED <<settings, ref, ignore, text, missed, forgotten>>
    /\ inner' = Kept(inner)

-----------------------------------------------------------------------------
(* The surroundings.                                                       *)

Change(s) ==
    /\ settings' = [settings EXCEPT ![s] = ~ @]
    /\ UNCHANGED <<outer, inner, stage, ref, ignore, text, missed, forgotten, punished>>

\* A message outlives WindowSecs, or the user's cache five idle minutes, and
\* with it all that came before.
ForgetMessages ==
    /\ Cardinality(forgotten) < MaxForgotten
    /\ \/ \E m \in Visible :
             /\ inner' = [inner EXCEPT ![outer] = @ \ {m}]
             /\ forgotten' = forgotten \cup {m}
             /\ UNCHANGED outer
       \/ /\ InFlight = {} /\ outer # NoCache
          /\ outer' = NoCache
          /\ forgotten' = 1 .. Len(text)
          /\ inner' = [inner EXCEPT ![outer] = {}]
    /\ UNCHANGED <<settings, stage, ref, ignore, text, missed, punished>>

FloodNext ==
    \/ \E m \in Msgs :
          \/ Arrive(m)
          \/ MakeInner(m, "make for push", "set")
          \/ Store(m)
          \/ Skip(m) \/ Examine(m)
          \/ MakeInner(m, "make for count", "count")
          \/ Count(m) \/ Clear(m)
    \/ \E s \in Changing : Change(s)
    \/ ForgetMessages

FloodSpec == FloodInit /\ [][FloodNext]_floodVars

-----------------------------------------------------------------------------
(* Properties.                                                             *)

Stages == {"new", "make for push", "set", "check", "make for count", "count",
           "clear", "done"}

FloodTypeOK ==
    /\ settings \in [DOMAIN Settings -> BOOLEAN]
    /\ outer \in Inners \cup {NoCache}
    /\ inner \in [Inners -> SUBSET Msgs]
    /\ stage \in [Msgs -> Stages]
    /\ ref \in [Msgs -> Inners \cup {NoCache}]
    /\ \A m \in Msgs : stage[m] \in {"set", "count"} => ref[m] # NoCache
    /\ text \in Seq(Texts) /\ Len(text) <= MaxMsgs
    /\ ignore \cup missed \cup forgotten \cup punished \subseteq Msgs

Posted        == {m \in 1 .. Len(text) : stage[m] \notin {"make for push", "set"}}
OfClass(M, k) == {m \in M : text[m] = k}

\* Messages do not count again and again: Limit similar ones buy at most one
\* punishment per worker, the workers that had counted them before the first
\* of the punishments cleared the cache.
CountedOnce ==
    /\ FloodTypeOK
    /\ \A k \in Texts :
        Cardinality(OfClass(punished, k)) * Limit
            <= Cardinality(OfClass(Posted \ ignore, k)) * Concurrency

\* The most similar messages that may go unpunished.  Workers that find no
\* cache of the user's at once replace each other's: each of the Concurrency
\* caches may take Limit - 1 messages, and the j-th to be replaced j more, by
\* the j workers that are neither replacing it nor about to replace another.
Tolerated ==
    Concurrency * (Limit - 1) + (Concurrency * (Concurrency - 1)) \div 2

\* A user who posts more similar messages than that, with fewer than MinGap
\* others, is punished: expired messages aside, whatever the workers do.
FloodPunished ==
    InFlight = {} /\ punished = {} /\ missed = {} =>
        \A k \in Texts :
            LET alike == OfClass(Posted \ ignore, k)
            IN  Cardinality(Posted \ alike) < MinGap =>
                    Cardinality(alike \ forgotten) <= Tolerated

\* "Number of similar messages: N": N of them are punished.  The code breaks
\* it for two first messages that are stored at once.
LimitIsEnough ==
    InFlight = {} /\ punished = {} =>
        \A k \in Texts : Cardinality(OfClass(Posted \ ignore, k)) < Limit

\* "VIPs: enabled": a VIP's flood is punished by the VIP settings, whatever
\* the default settings say.  The code breaks it: it stores all messages as
\* to be ignored when the default settings are off.
VipIsChecked ==
    IsVip /\ settings["bot"] /\ settings["vip"] /\ InFlight = {} /\ punished = {} =>
        \A k \in Texts : Cardinality(OfClass(Posted, k)) <= Tolerated

\* "spam.mode must be one of always (0), ...": in mode 0 no check is skipped.
\* The code breaks it: it takes 0 for the online mode.
ModeZeroIsAlways == Mode = 0 /\ settings["bot"] /\ settings["default"] => missed = {}

\* "Least number of different messages between spam: N": whether similar
\* messages count depends on how many others came between them.  The code
\* breaks it: it meets the messages in the order of a hash table.
OrderIsArrival ==
    [][\A m \in Msgs : stage[m] = "count" /\ stage'[m] # "count" =>
          (stage'[m] = "clear"
              <=> CountSpam(m, SetToSortSeq(inner[ref[m]], <)) >= Limit)]_floodVars
=============================================================================
