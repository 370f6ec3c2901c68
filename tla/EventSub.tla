------------------------------ MODULE EventSub ------------------------------
(***************************************************************************)
(* The EventSub session (adapters/platform/twitch/event_sub): one          *)
(* connection after another, each with a session of its own; the           *)
(* session_welcome handler that subscribes every known channel under the   *)
(* new session, holding es.mu all the while; and AddChannel, called by one *)
(* start-up goroutine per channel, which adds its channel and subscribes   *)
(* it under the session it then reads.                                     *)
(*                                                                         *)
(* A connection is named by its number, which stands for its session id.   *)
(* Workers of a lost connection finish what they have begun, their         *)
(* requests failing; session_reconnect does nothing (event_sub.go:150-156: *)
(* the context holds no "cancelFunc"), so it is followed by a loss.        *)
(***************************************************************************)
EXTENDS Naturals, FiniteSets, Sequences

CONSTANTS
    Channels,
    Types,           \* the event types subscribed to, in order
    MaxRetries,      \* maxRetries: tries per event type
    MaxConnections,  \* model bound on the connections made
    MaxFailures,     \* model bound on the requests that fail by themselves
    None

Connections == 1..MaxConnections
TypeNames   == {Types[i] : i \in DOMAIN Types}

Job == [session : Nat, channel : Channels, at : DOMAIN Types, tries : 0..(MaxRetries - 1)]

ASSUME EventSubAssumption ==
    /\ MaxRetries \in Nat \ {0}
    /\ MaxConnections \in Nat \ {0}
    /\ MaxFailures \in Nat
    /\ Types \in Seq(TypeNames) \ {<<>>}
    /\ Channels \cap Nat = {}
    /\ None \notin Job

VARIABLES
    connection,  \* the connection that is up, 0 if none
    opened,      \* how many have been opened
    sessionID,   \* es.sessionID, 0 for ""
    channels,    \* es.channels
    mu,          \* the welcome handler that holds es.mu, 0 if none
    welcome,     \* connection -> how far its session_welcome has come
    todo,        \* connection -> channels its handler has yet to visit
    adding,      \* channel -> how far AddChannel has come
    job,         \* handler or AddChannel -> its run of subscribeEvents
    subs,        \* Twitch: <<connection, channel, type>> subscribed
    failures     \* requests that have failed by themselves

connVars == <<connection, opened, welcome, todo>>
vars   == <<connVars, sessionID, channels, mu, adding, job, subs, failures>>

Processes == Connections \cup Channels

NewJob(c) == [session |-> sessionID, channel |-> c, at |-> 1, tries |-> 0]

Init ==
    /\ connection = 0 /\ opened = 0 /\ sessionID = 0
    /\ channels = {}
    /\ mu = 0
    /\ welcome = [n \in Connections |-> "none"]
    /\ todo = [n \in Connections |-> {}]
    /\ adding = [c \in Channels |-> "no"]
    /\ job = [p \in Processes |-> None]
    /\ subs = {}
    /\ failures = 0

\* connectAndHandleEvents, once more.  runEventLoop sleeps 5 seconds between
\* two connections: an idle worker has begun, or left, the welcome by then.
Dial ==
    /\ connection = 0
    /\ opened < MaxConnections
    /\ \A n \in Connections : welcome[n] # "sent"
    /\ connection' = opened + 1
    /\ opened' = opened + 1
    /\ welcome' = [welcome EXCEPT ![opened + 1] = "sent"]
    /\ UNCHANGED <<sessionID, channels, mu, todo, adding, job, subs, failures>>

\* readMessages fails: the context is cancelled, the session is over.
Lose ==
    /\ connection # 0
    /\ connection' = 0
    /\ subs' = {}
    /\ UNCHANGED <<opened, sessionID, channels, mu, welcome, todo, adding, job, failures>>

\* workerLoop sees the cancelled context before the message.
DropWelcome(n) ==
    /\ welcome[n] = "sent"
    /\ connection # n
    /\ welcome' = [welcome EXCEPT ![n] = "done"]
    /\ UNCHANGED <<connection, opened, sessionID, channels, mu, todo, adding, job, subs, failures>>
----------------------------------------------------------------------------
\* handleMessage of session_welcome: es.sessionID.Store, then the lock.
StoreSession(n) ==
    /\ welcome[n] = "sent"
    /\ sessionID' = n
    /\ welcome' = [welcome EXCEPT ![n] = "stored"]
    /\ UNCHANGED <<connection, opened, channels, mu, todo, adding, job, subs, failures>>

LockChannels(n) ==
    /\ welcome[n] = "stored"
    /\ mu = 0
    /\ mu' = n
    /\ welcome' = [welcome EXCEPT ![n] = "locked"]
    /\ todo' = [todo EXCEPT ![n] = channels]
    /\ UNCHANGED <<connection, opened, sessionID, channels, adding, job, subs, failures>>

\* The session is read again for every channel.
NextChannel(n) ==
    /\ welcome[n] = "locked"
    /\ job[n] = None
    /\ \E c \in todo[n] :
         /\ todo' = [todo EXCEPT ![n] = @ \ {c}]
         /\ job' = [job EXCEPT ![n] = NewJob(c)]
    /\ UNCHANGED <<connection, opened, sessionID, channels, mu, welcome, adding, subs, failures>>

\* Mutant: the lock is kept.
UnlockForgotten(n) ==
    /\ welcome[n] = "locked"
    /\ job[n] = None
    /\ todo[n] = {}
    /\ welcome' = [welcome EXCEPT ![n] = "done"]
    /\ UNCHANGED <<connection, opened, sessionID, channels, mu, todo, adding, job, subs, failures>>

UnlockChannels(n) ==
    /\ welcome[n] = "locked"
    /\ job[n] = None
    /\ todo[n] = {}
    /\ mu' = 0
    /\ welcome' = [welcome EXCEPT ![n] = "done"]
    /\ UNCHANGED <<connection, opened, sessionID, channels, todo, adding, job, subs, failures>>

\* AddChannel, called once NewTwitch has seen a session.
Register(c) ==
    /\ adding[c] = "no"
    /\ sessionID # 0
    /\ mu = 0
    /\ channels' = channels \cup {c}
    /\ adding' = [adding EXCEPT ![c] = "added"]
    /\ UNCHANGED <<connVars, sessionID, mu, job, subs, failures>>

SubscribeAdded(c) ==
    /\ adding[c] = "added"
    /\ job' = [job EXCEPT ![c] = NewJob(c)]
    /\ adding' = [adding EXCEPT ![c] = "subscribing"]
    /\ UNCHANGED <<connVars, sessionID, channels, mu, subs, failures>>

Added(c) ==
    /\ adding[c] = "subscribing"
    /\ job[c] = None
    /\ adding' = [adding EXCEPT ![c] = "done"]
    /\ UNCHANGED <<connVars, sessionID, channels, mu, job, subs, failures>>
----------------------------------------------------------------------------
\* subscribeEvents: one event type after another, each tried a few times.
Cancelled(p) == p \in Connections /\ connection # p

Subscription(j) == <<j.session, j.channel, Types[j.at]>>

NextType(j) == IF j.at = Len(Types) THEN None ELSE [j EXCEPT !.at = @ + 1, !.tries = 0]

\* Mutant: one try.
RetriedNever(j) == NextType(j)

Retried(j) == IF j.tries + 1 < MaxRetries THEN [j EXCEPT !.tries = @ + 1] ELSE NextType(j)

\* Twitch accepts a subscription of the live session, once.
Acceptable(p) ==
    /\ ~Cancelled(p)
    /\ job[p].session = connection
    /\ Subscription(job[p]) \notin subs

Accept(p) ==
    /\ job[p] # None
    /\ Acceptable(p)
    /\ subs' = subs \cup {Subscription(job[p])}
    /\ job' = [job EXCEPT ![p] = NextType(job[p])]
    /\ UNCHANGED <<connVars, sessionID, channels, mu, adding, failures>>

Refuse(p) ==
    /\ job[p] # None
    /\ ~Acceptable(p)
    /\ job' = [job EXCEPT ![p] = Retried(job[p])]
    /\ UNCHANGED <<connVars, sessionID, channels, mu, adding, subs, failures>>

\* The request, or the answer to it, is lost.
FailRequest(p) ==
    /\ job[p] # None
    /\ Acceptable(p)
    /\ failures < MaxFailures
    /\ failures' = failures + 1
    /\ subs' \in {subs, subs \cup {Subscription(job[p])}}
    /\ job' = [job EXCEPT ![p] = Retried(job[p])]
    /\ UNCHANGED <<connVars, sessionID, channels, mu, adding>>

Request(p) == Accept(p) \/ Refuse(p)

Welcomed(n) ==
    \/ DropWelcome(n) \/ StoreSession(n) \/ LockChannels(n)
    \/ NextChannel(n) \/ UnlockChannels(n)

AddChannel(c) == Register(c) \/ SubscribeAdded(c) \/ Added(c)

Next ==
    \/ Dial
    \/ Lose
    \/ \E n \in Connections : Welcomed(n)
    \/ \E c \in Channels : AddChannel(c)
    \/ \E p \in Processes : Request(p) \/ FailRequest(p)

\* Goroutines run, requests are answered one way or the other, and es.mu is
\* a Go mutex, which lets no goroutine wait for ever.
Fairness ==
    /\ WF_vars(Dial)
    /\ \A n \in Connections : WF_vars(Welcomed(n)) /\ SF_vars(LockChannels(n))
    /\ \A c \in Channels : WF_vars(AddChannel(c)) /\ SF_vars(Register(c))
    /\ \A p \in Processes : WF_vars(Request(p))
----------------------------------------------------------------------------
Spec == Init /\ [][Next]_vars /\ Fairness

(* Sessions are the connections made so far; the subscriptions Twitch      *)
(* keeps are of the connection that is up; a run of subscribeEvents never  *)
(* exceeds its tries.                                                      *)
TypeOK ==
    /\ connection \in 0..opened
    /\ opened \in 0..MaxConnections
    /\ sessionID \in 0..opened
    /\ channels \subseteq Channels
    /\ mu \in 0..opened
    /\ welcome \in [Connections -> {"none", "sent", "stored", "locked", "done"}]
    /\ todo \in [Connections -> SUBSET Channels]
    /\ adding \in [Channels -> {"no", "added", "subscribing", "done"}]
    /\ job \in [Processes -> Job \cup {None}]
    /\ subs \subseteq {connection} \X Channels \X TypeNames
    /\ failures \in 0..MaxFailures

Subscribed(c) == \A t \in TypeNames : <<connection, c, t>> \in subs

(* Once the welcome of the session in force has been handled, every        *)
(* channel whose AddChannel has returned is subscribed to every event      *)
(* under that session, whichever of the two did it and however they met    *)
(* (event_sub.go:62-77 and 157-172: the session is stored before es.mu is  *)
(* taken, the channel added before the session is read), unless requests   *)
(* failed by themselves often enough to exhaust the tries.                 *)
NoChannelForgotten ==
    /\ TypeOK
    /\ connection # 0 /\ welcome[connection] = "done" /\ failures < MaxRetries =>
         \A c \in Channels : adding[c] = "done" => Subscribed(c)

(* However connections, welcomes and AddChannels overlap, each waiting for *)
(* es.mu while another retries (event_sub.go:167-172), the last session    *)
(* ends up with all channels subscribed, under the same provision.         *)
SubscribedInTheEnd ==
    <>[](\/ connection = 0
         \/ failures >= MaxRetries
         \/ \A c \in Channels : Subscribed(c))
=============================================================================
