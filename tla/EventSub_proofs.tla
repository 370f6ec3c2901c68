--------------------------- MODULE EventSub_proofs ---------------------------
(***************************************************************************)
(* Theorems about the EventSub session and about what its workers wait for *)
(* from the IRC connection.                                                *)
(*                                                                         *)
(* EventSub: whichever of the welcome handler and AddChannel subscribes a  *)
(* channel, and however they meet, none is forgotten.                      *)
(*                                                                         *)
(* IRCWaiter: for any number of waits and messages and any assignment of   *)
(* waits to messages, duplicates included.                                 *)
(***************************************************************************)
EXTENDS EventSub, IRCWaiter, SequenceTheorems, TLAPS

-----------------------------------------------------------------------------
(* EventSub.                                                               *)

\* Only the last connection made is up, and only its welcome may be unread.
\* Once it is read, the session is this connection's.
Sequential ==
    /\ connection \in {0, opened}
    /\ \A n \in Connections : /\ welcome[n] = "none" <=> opened < n
                              /\ welcome[n] = "sent" => n = opened
                              /\ welcome[n] \in {"stored", "locked"} => sessionID # 0
    /\ connection # 0 /\ welcome[connection] # "sent" => sessionID = connection
    /\ connection = 0 => subs = {}

\* Whose a run of subscribeEvents is, and under which session.
JobsOwned ==
    \A p \in Processes : job[p] # None =>
        /\ job[p].session \in 1 .. opened
        /\ p \in Channels => job[p].channel = p /\ adding[p] = "subscribing"
        /\ p \in Connections => /\ welcome[p] = "locked"
                                /\ p = connection => job[p].session = connection

\* A run under the session of the connection that is up has subscribed the types
\* before the one it is at; this one it has tried no more often than requests
\* have failed, if it has not subscribed it, too.
Progress(p) ==
    LET j == job[p]
    IN  j # None /\ ~ Cancelled(p) /\ j.session = connection =>
            /\ \A i \in 1 .. j.at - 1 : <<connection, j.channel, Types[i]>> \in subs
            /\ j.tries <= failures \/ Subscription(j) \in subs

\* A channel is known, and a session was, before AddChannel reads the session.
Registered == \A c \in Channels : adding[c] # "no" => c \in channels /\ sessionID # 0

\* AddChannel has yet to subscribe the channel under the session in force.
Owed(c) ==
    \/ adding[c] \in {"no", "added"}
    \/ adding[c] = "subscribing" /\ job[c] # None /\ job[c].session = connection

\* The welcome handler has yet to subscribe it.
Awaited(c) ==
    \/ welcome[connection] \in {"sent", "stored"}
    \/ /\ welcome[connection] = "locked"
       /\ c \in todo[connection] \/ (job[connection] # None /\ job[connection].channel = c)

NoneForgotten ==
    connection # 0 /\ failures < MaxRetries =>
        /\ \A p \in Processes : Progress(p)
        /\ \A c \in Channels : Owed(c) \/ Awaited(c) \/ Subscribed(c)

Shape == TypeOK /\ Sequential /\ JobsOwned /\ Registered
IInv  == Shape /\ NoneForgotten

\* The constants, and the numbers among them.
LEMMA Numbers ==
    /\ MaxRetries \in Nat \ {0} /\ MaxConnections \in Nat \ {0} /\ MaxFailures \in Nat
    /\ Len(Types) \in Nat \ {0} /\ DOMAIN Types = 1 .. Len(Types)
    /\ None \notin Job
    /\ Connections = 1 .. MaxConnections /\ Connections \cap Channels = {}
<1>1. Types \in Seq(TypeNames) /\ Types # <<>>
  BY EventSubAssumption
<1>2. QED
  BY <1>1, EventSubAssumption, EmptySeq, LenProperties DEF Connections

\* A run goes on with its session and its channel.
LEMMA Runs ==
    ASSUME NEW j \in Job
    PROVE  /\ NextType(j) \in Job \cup {None} /\ Retried(j) \in Job \cup {None}
           /\ \A k \in {NextType(j), Retried(j)} :
                 k # None => k.session = j.session /\ k.channel = j.channel
           /\ Subscription(j) \in {j.session} \X Channels \X TypeNames
<1>1. j.at \in 1 .. Len(Types) /\ Types[j.at] \in TypeNames /\ j.tries \in 0 .. MaxRetries - 1
  BY Numbers DEF Job, TypeNames
<1>2. j.at # Len(Types) => j.at + 1 \in DOMAIN Types
  BY <1>1, Numbers
<1>3. j.tries + 1 < MaxRetries => j.tries + 1 \in 0 .. MaxRetries - 1
  BY <1>1, Numbers
<1>4. 0 \in 0 .. MaxRetries - 1
  BY Numbers
<1>5. /\ NextType(j) \in Job \cup {None}
      /\ NextType(j) # None => NextType(j).session = j.session /\ NextType(j).channel = j.channel
  BY <1>2, <1>4 DEF NextType, Job
<1>6. j.tries + 1 < MaxRetries => [j EXCEPT !.tries = @ + 1] \in Job
  BY <1>3 DEF Job
<1>7. QED
  BY <1>1, <1>5, <1>6 DEF Retried, Subscription, Job

\* A run of subscriptions begins at the first type, under the session read.
LEMMA NewJobs ==
    ASSUME Shape, NEW c \in Channels
    PROVE  /\ NewJob(c) \in Job /\ NewJob(c) # None
           /\ NewJob(c).session = sessionID /\ NewJob(c).channel = c
           /\ NewJob(c).at = 1 /\ NewJob(c).tries = 0
  BY Numbers DEF Shape, TypeOK, NewJob, Job

\* Nothing is connected and no channel added.
LEMMA InitInv == Init => IInv
<1> SUFFICES ASSUME Init PROVE IInv
  OBVIOUS
<1>1. TypeOK
  BY Numbers DEF Init, TypeOK
<1>2. Sequential
  BY Numbers DEF Init, Sequential
<1>3. JobsOwned /\ Registered /\ NoneForgotten
  BY DEF Init, JobsOwned, Registered, NoneForgotten
<1>4. QED
  BY <1>1, <1>2, <1>3 DEF IInv, Shape

-----------------------------------------------------------------------------
(* Connections, sessions, and whose the runs are.                          *)

\* A new connection takes the next number.
LEMMA DialShape == Shape /\ Dial => Shape'
  BY Numbers DEF Shape, TypeOK, Sequential, JobsOwned, Registered, Dial, Processes, Cancelled

\* A lost one takes its subscriptions with it.
LEMMA LoseShape == Shape /\ Lose => Shape'
  BY Numbers DEF Shape, TypeOK, Sequential, JobsOwned, Registered, Lose, Processes

\* The welcome handler: store the session, take the lock, go over the channels.
LEMMA WelcomedShape ==
    ASSUME Shape, NEW n \in Connections, Welcomed(n)
    PROVE  Shape'
<1> USE DEF Shape, TypeOK
<1>1. CASE DropWelcome(n)
  BY <1>1, Numbers DEF DropWelcome, Sequential, JobsOwned, Registered, Processes
<1>2. CASE StoreSession(n)
  BY <1>2, Numbers DEF StoreSession, Sequential, JobsOwned, Registered, Processes
<1>3. CASE LockChannels(n)
  BY <1>3, Numbers DEF LockChannels, Sequential, JobsOwned, Registered, Processes
<1>4. CASE NextChannel(n)
  <2>1. PICK c \in todo[n] : /\ todo' = [todo EXCEPT ![n] = @ \ {c}]
                             /\ job' = [job EXCEPT ![n] = NewJob(c)]
    BY <1>4 DEF NextChannel
  <2>2. c \in Channels
    OBVIOUS
  <2>3. /\ NewJob(c) \in Job /\ NewJob(c) # None
        /\ NewJob(c).session = sessionID /\ NewJob(c).channel = c
    BY <2>2, NewJobs
  <2> HIDE DEF NewJob
  <2>4. TypeOK'
    BY <1>4, <2>1, <2>3 DEF NextChannel
  <2>5. Sequential' /\ Registered'
    BY <1>4 DEF NextChannel, Sequential, Registered
  <2>6. JobsOwned'
    <3>1. sessionID \in 1 .. opened /\ (n = connection => sessionID = connection)
      BY <1>4 DEF NextChannel, Sequential, Connections
    <3>2. ASSUME NEW p \in Processes, p # n
          PROVE  job'[p] = job[p]
      BY <2>1, <3>2
    <3>3. job'[n] = NewJob(c)
      BY <2>1 DEF Processes
    <3>4. QED
      BY <1>4, <2>3, <3>1, <3>2, <3>3, Numbers DEF NextChannel, JobsOwned
  <2>7. QED
    BY <2>4, <2>5, <2>6
<1>5. CASE UnlockChannels(n)
  BY <1>5, Numbers DEF UnlockChannels, Sequential, JobsOwned, Registered, Processes
<1>6. QED
  BY <1>1, <1>2, <1>3, <1>4, <1>5 DEF Welcomed

\* AddChannel: register the channel, read the session, subscribe.
LEMMA AddChannelShape ==
    ASSUME Shape, NEW c \in Channels, AddChannel(c)
    PROVE  Shape'
<1> USE DEF Shape, TypeOK
<1>1. CASE Register(c)
  BY <1>1, Numbers DEF Register, connVars, Sequential, JobsOwned, Registered, Processes
<1>2. CASE SubscribeAdded(c)
  <2>1. /\ NewJob(c) \in Job /\ NewJob(c) # None
        /\ NewJob(c).session = sessionID /\ NewJob(c).channel = c
    BY NewJobs
  <2>2. TypeOK' /\ Sequential' /\ Registered'
    BY <1>2, <2>1 DEF SubscribeAdded, connVars, Sequential, Registered
  <2>3. JobsOwned'
    <3>1. sessionID \in 1 .. opened
      BY <1>2 DEF SubscribeAdded, Registered
    <3>2. ASSUME NEW p \in Processes, p # c
          PROVE  job'[p] = job[p] /\ (p \in Channels => adding'[p] = adding[p])
      BY <1>2, <3>2 DEF SubscribeAdded
    <3>3. job'[c] = NewJob(c) /\ adding'[c] = "subscribing"
      BY <1>2 DEF SubscribeAdded, Processes
    <3>4. QED
      BY <1>2, <2>1, <3>1, <3>2, <3>3, Numbers DEF SubscribeAdded, connVars, JobsOwned
  <2>4. QED
    BY <2>2, <2>3
<1>3. CASE Added(c)
  BY <1>3, Numbers DEF Added, connVars, Sequential, JobsOwned, Registered, Processes
<1>4. QED
  BY <1>1, <1>2, <1>3 DEF AddChannel

\* An answer to a request, of whatever kind: under the session in force, the type
\* is subscribed or a request has failed by itself.
Answered(p) ==
    /\ job[p] # None
    /\ job' \in {[job EXCEPT ![p] = NextType(job[p])], [job EXCEPT ![p] = Retried(job[p])]}
    /\ subs' \in {subs, subs \cup {Subscription(job[p])}}
    /\ subs' # subs => Acceptable(p)
    /\ failures' \in {failures, failures + 1} /\ failures' <= MaxFailures
    /\ ~ Cancelled(p) /\ job[p].session = connection =>
          \/ Subscription(job[p]) \in subs'
          \/ failures' = failures + 1 /\ job' = [job EXCEPT ![p] = Retried(job[p])]
    /\ UNCHANGED <<connVars, sessionID, channels, mu, adding>>

\* A request that is answered, or fails, moves its run on.
LEMMA RequestAnswered ==
    ASSUME Shape, NEW p \in Processes, Request(p) \/ FailRequest(p)
    PROVE  Answered(p)
  BY Numbers DEF Shape, TypeOK, Request, Accept, Refuse, FailRequest, Acceptable, Answered

\* The run stays its goroutine's, or ends.
LEMMA AnsweredShape ==
    ASSUME Shape, NEW p \in Processes, Answered(p)
    PROVE  Shape'
<1> USE DEF Shape, TypeOK
<1>1. job[p] \in Job /\ job[p] # None
  BY DEF Answered
<1>2. PICK k \in Job \cup {None} :
        /\ job' = [job EXCEPT ![p] = k]
        /\ k # None => k.session = job[p].session /\ k.channel = job[p].channel
  BY <1>1, Runs DEF Answered
<1>3. Subscription(job[p]) \in {job[p].session} \X Channels \X TypeNames
  BY <1>1, Runs
<1>4. subs' \subseteq {connection} \X Channels \X TypeNames
  BY <1>3 DEF Answered, Acceptable
<1>5. TypeOK'
  BY <1>2, <1>4, Numbers DEF Answered, connVars
<1>6. Sequential' /\ Registered'
  <2>1. connection = 0 => subs' = subs
    BY <1>1 DEF Answered, Acceptable, JobsOwned
  <2>2. QED
    BY <2>1 DEF Answered, connVars, Sequential, Registered
<1>7. JobsOwned'
  BY <1>2, Numbers DEF Answered, connVars, JobsOwned, Processes
<1>8. QED
  BY <1>5, <1>6, <1>7

\* Every step keeps the shape.
LEMMA NextShape == Shape /\ [Next]_vars => Shape'
<1> SUFFICES ASSUME Shape, [Next]_vars PROVE Shape'
  OBVIOUS
<1>1. CASE UNCHANGED vars
  BY <1>1 DEF vars, connVars, Shape, TypeOK, Sequential, JobsOwned, Registered
<1>2. QED
  BY <1>1, DialShape, LoseShape, WelcomedShape, AddChannelShape, RequestAnswered,
     AnsweredShape DEF Next

-----------------------------------------------------------------------------
(* No channel is forgotten.                                                *)

\* A lost connection, or a welcome unread, leaves nothing to show.
LEMMA NewConnection ==
    ASSUME IInv, Dial \/ Lose
    PROVE  NoneForgotten'
<1>1. CASE Lose
  BY <1>1 DEF Lose, NoneForgotten
<1>2. CASE Dial
  <2> USE DEF IInv, Shape, TypeOK
  <2>1. connection' = opened + 1 /\ connection' \in Connections /\ opened \in Nat
    BY <1>2, Numbers DEF Dial
  <2>2. \A p \in Processes : Progress(p)'
    <3>1. \A p \in Processes : job'[p] # None => job'[p].session # connection'
      BY <1>2, <2>1 DEF Dial, JobsOwned
    <3>2. QED
      BY <3>1 DEF Progress
  <2>3. \A c \in Channels : Awaited(c)'
    BY <1>2, <2>1 DEF Dial, Awaited
  <2>4. QED
    BY <2>2, <2>3 DEF NoneForgotten
<1>3. QED
  BY <1>1, <1>2

\* What subscribes a channel is not disturbed by the steps of another.
LEMMA StepOfWelcome ==
    ASSUME IInv, NEW n \in Connections, Welcomed(n)
    PROVE  NoneForgotten'
<1> USE DEF IInv, Shape, TypeOK
<1>0. UNCHANGED <<connection, opened, channels, adding, subs, failures>>
  BY DEF Welcomed, DropWelcome, StoreSession, LockChannels, NextChannel, UnlockChannels
<1> SUFFICES ASSUME connection # 0, failures < MaxRetries
             PROVE  /\ \A p \in Processes : Progress(p)'
                    /\ \A c \in Channels : (Owed(c) \/ Awaited(c) \/ Subscribed(c))'
  BY <1>0 DEF NoneForgotten
<1>1. /\ \A p \in Processes : Progress(p)
      /\ \A c \in Channels : Owed(c) \/ Awaited(c) \/ Subscribed(c)
      /\ connection \in Connections
  BY Numbers DEF NoneForgotten
<1>2. \A c \in Channels : Subscribed(c)' = Subscribed(c)
  BY <1>0 DEF Subscribed
<1>3. CASE NextChannel(n)
  <2>1. PICK c \in todo[n] : /\ todo' = [todo EXCEPT ![n] = @ \ {c}]
                             /\ job' = [job EXCEPT ![n] = NewJob(c)]
    BY <1>3 DEF NextChannel
  <2>2. c \in Channels
    OBVIOUS
  <2>3. /\ NewJob(c) # None /\ NewJob(c).channel = c
        /\ NewJob(c).at = 1 /\ NewJob(c).tries = 0
    BY <2>2, NewJobs
  <2>4. /\ job'[n] = NewJob(c)
        /\ \A p \in Processes : p # n => job'[p] = job[p]
        /\ \A p \in Channels : job'[p] = job[p]
    BY <2>1, Numbers DEF Processes
  <2>5. \A p \in Processes : Progress(p)'
    <3>1. ASSUME NEW p \in Processes, p # n PROVE Progress(p)'
      BY <1>0, <1>1, <2>4, <3>1 DEF Progress, Cancelled, Subscription
    <3>2. Progress(n)'
      BY <1>0, <2>3, <2>4 DEF Progress
    <3>3. QED
      BY <3>1, <3>2
  <2>6. ASSUME NEW d \in Channels PROVE (Owed(d) \/ Awaited(d) \/ Subscribed(d))'
    <3>1. Owed(d)' = Owed(d)
      BY <1>0, <2>4 DEF Owed
    <3>2. Awaited(d) => Awaited(d)'
      BY <1>0, <1>1, <1>3, <2>1, <2>3, <2>4 DEF Awaited, NextChannel
    <3>3. QED
      BY <1>1, <1>2, <3>1, <3>2
  <2>7. QED
    BY <2>5, <2>6
<1>4. CASE ~ NextChannel(n)
  <2>1. job' = job
    BY <1>4 DEF Welcomed, DropWelcome, StoreSession, LockChannels, UnlockChannels
  <2>2. \A p \in Processes : Progress(p)'
    BY <1>0, <1>1, <2>1 DEF Progress, Cancelled, Subscription
  <2>3. ASSUME NEW c \in Channels PROVE (Owed(c) \/ Awaited(c) \/ Subscribed(c))'
    <3>1. Owed(c)' = Owed(c)
      BY <1>0, <2>1 DEF Owed
    <3>2. CASE DropWelcome(n)
      BY <1>0, <1>1, <1>2, <2>1, <3>1, <3>2 DEF DropWelcome, Awaited
    <3>3. CASE StoreSession(n)
      BY <1>0, <1>1, <1>2, <2>1, <3>1, <3>3 DEF StoreSession, Awaited
    <3>4. CASE LockChannels(n)
      <4>1. ~ Owed(c) => c \in channels
        BY DEF Owed, Registered
      <4>2. QED
        BY <1>0, <1>1, <1>2, <2>1, <3>1, <3>4, <4>1 DEF LockChannels, Awaited
    <3>5. CASE UnlockChannels(n)
      BY <1>0, <1>1, <1>2, <2>1, <3>1, <3>5 DEF UnlockChannels, Awaited
    <3>6. QED
      BY <1>4, <3>2, <3>3, <3>4, <3>5 DEF Welcomed
  <2>4. QED
    BY <2>2, <2>3
<1>5. QED
  BY <1>3, <1>4

\* A step of AddChannel leaves its channel owed, to itself or to the welcome.
LEMMA StepOfAddChannel ==
    ASSUME IInv, NEW c \in Channels, AddChannel(c)
    PROVE  NoneForgotten'
<1> USE DEF IInv, Shape, TypeOK
<1>0. UNCHANGED <<connection, opened, sessionID, welcome, todo, subs, failures>>
  BY DEF AddChannel, Register, SubscribeAdded, Added, connVars
<1> SUFFICES ASSUME connection # 0, failures < MaxRetries
             PROVE  /\ \A p \in Processes : Progress(p)'
                    /\ \A d \in Channels : (Owed(d) \/ Awaited(d) \/ Subscribed(d))'
  BY <1>0 DEF NoneForgotten
<1>1. /\ \A p \in Processes : Progress(p)
      /\ \A d \in Channels : Owed(d) \/ Awaited(d) \/ Subscribed(d)
      /\ connection \in Connections /\ connection # c
  BY Numbers DEF NoneForgotten
<1>2. \A d \in Channels : Subscribed(d)' = Subscribed(d)
  BY <1>0 DEF Subscribed
<1>3. CASE SubscribeAdded(c)
  <2>1. /\ NewJob(c) # None /\ NewJob(c).session = sessionID
        /\ NewJob(c).at = 1 /\ NewJob(c).tries = 0
    BY NewJobs
  <2>2. /\ job'[c] = NewJob(c) /\ adding'[c] = "subscribing"
        /\ \A p \in Processes \ {c} : job'[p] = job[p]
        /\ \A d \in Channels \ {c} : adding'[d] = adding[d]
    BY <1>3 DEF SubscribeAdded, Processes
  <2>3. ASSUME NEW p \in Processes PROVE Progress(p)'
    <3>1. CASE p = c
      BY <1>0, <2>1, <2>2, <3>1 DEF Progress
    <3>2. CASE p # c
      BY <1>0, <1>1, <2>2, <3>2 DEF Progress, Cancelled, Subscription
    <3>3. QED
      BY <3>1, <3>2
  <2>4. \A d \in Channels : Awaited(d)' = Awaited(d)
    BY <1>0, <1>1, <2>2 DEF Awaited, Processes
  <2>5. ASSUME NEW d \in Channels, d # c PROVE Owed(d)' = Owed(d)
    BY <1>0, <2>2, <2>5 DEF Owed, Processes
  <2>6. Owed(c)' \/ Awaited(c)'
    <3>1. CASE welcome[connection] = "sent"
      BY <1>0, <3>1 DEF Awaited
    <3>2. CASE welcome[connection] # "sent"
      BY <1>0, <2>1, <2>2, <3>2 DEF Owed, Sequential
    <3>3. QED
      BY <3>1, <3>2
  <2>7. QED
    BY <1>1, <1>2, <2>3, <2>4, <2>5, <2>6
<1>4. CASE Register(c) \/ Added(c)
  <2>1. job' = job /\ \A d \in Channels \ {c} : adding'[d] = adding[d]
    BY <1>4 DEF Register, Added, connVars
  <2>2. \A p \in Processes : Progress(p)'
    BY <1>0, <1>1, <2>1 DEF Progress, Cancelled, Subscription
  <2>3. \A d \in Channels : Awaited(d)' = Awaited(d)
    BY <1>0, <2>1 DEF Awaited
  <2>4. ASSUME NEW d \in Channels, Owed(d) PROVE Owed(d)'
    <3>1. CASE d # c
      BY <1>0, <2>1, <2>4, <3>1 DEF Owed
    <3>2. CASE d = c
      BY <1>4, <2>4, <3>2 DEF Owed, Register, Added
    <3>3. QED
      BY <3>1, <3>2
  <2>5. QED
    BY <1>1, <1>2, <2>2, <2>3, <2>4
<1>5. QED
  BY <1>3, <1>4 DEF AddChannel

\* An event type is passed when it is subscribed, or as many requests have failed
\* as there are tries: a run that ends has subscribed them all.
LEMMA Passed ==
    ASSUME IInv, NEW p \in Processes, Answered(p), connection # 0, failures' < MaxRetries,
           ~ Cancelled(p), job[p].session = connection
    PROVE  /\ Progress(p)'
           /\ \A c \in Channels :
                 c = job[p].channel /\ job'[p] = None => Subscribed(c)'
<1> USE DEF IInv, Shape, TypeOK
<1> DEFINE j == job[p]
<1>1. /\ j \in Job /\ j # None /\ Progress(p) /\ connection' = connection
      /\ failures \in Nat /\ failures' \in {failures, failures + 1} /\ failures < MaxRetries
  BY Numbers DEF Answered, connVars, NoneForgotten
<1>2. /\ \A i \in 1 .. j.at - 1 : <<connection, j.channel, Types[i]>> \in subs
      /\ j.tries <= failures \/ Subscription(j) \in subs
  BY <1>1 DEF Progress
<1>3. subs \subseteq subs' /\ (subs' = subs \/ Subscription(j) \in subs')
  BY DEF Answered
<1>4. PICK k \in {NextType(j), Retried(j)} :
        /\ job' = [job EXCEPT ![p] = k]
        /\ Subscription(j) \in subs' \/ (k = Retried(j) /\ failures' = failures + 1)
  BY DEF Answered
<1>5. job'[p] = k
  BY <1>4
<1>6. Subscription(j) = <<connection, j.channel, Types[j.at]>> /\ j.at \in 1 .. Len(Types)
  BY <1>1, Numbers DEF Subscription, Job
\* The type is not passed, or it is subscribed.
<1>7. \/ k = [j EXCEPT !.tries = j.tries + 1] /\ j.tries + 1 < MaxRetries
      \/ k = NextType(j) /\ Subscription(j) \in subs'
  <2>1. CASE Subscription(j) \in subs'
    BY <1>4, <2>1 DEF Retried
  <2>2. CASE Subscription(j) \notin subs'
    <3>1. k = Retried(j) /\ failures' = failures + 1 /\ j.tries <= failures
      BY <1>2, <1>3, <1>4, <2>2
    <3>2. j.tries + 1 < MaxRetries
      BY <1>1, <3>1, Numbers DEF Job
    <3>3. QED
      BY <3>1, <3>2 DEF Retried
  <2>3. QED
    BY <2>1, <2>2
<1>8. CASE k = [j EXCEPT !.tries = j.tries + 1] /\ j.tries + 1 < MaxRetries
  <2>1. /\ k.session = j.session /\ k.channel = j.channel /\ k.at = j.at
        /\ k.tries = j.tries + 1 /\ k \in Job
    <3>1. j.tries + 1 \in 0 .. MaxRetries - 1 /\ j.tries \in Nat
      BY <1>1, <1>8, Numbers DEF Job
    <3>2. QED
      BY <1>1, <1>8, <3>1 DEF Job
  <2>2. Subscription(k) = Subscription(j)
    BY <2>1 DEF Subscription
  <2>3. k.tries <= failures' \/ Subscription(j) \in subs'
    BY <1>1, <1>2, <1>3, <1>4, <2>1 DEF Job
  <2>4. QED
    BY <1>1, <1>2, <1>3, <1>5, <2>1, <2>2, <2>3, Numbers DEF Progress, Subscription
<1>9. CASE k = NextType(j) /\ Subscription(j) \in subs'
  <2>1. \A i \in 1 .. j.at : <<connection, j.channel, Types[i]>> \in subs'
    <3> SUFFICES ASSUME NEW i \in 1 .. j.at
                 PROVE  <<connection, j.channel, Types[i]>> \in subs'
      OBVIOUS
    <3>1. j.at \in Int
      BY <1>6, Numbers
    <3>2. CASE i = j.at
      BY <1>6, <1>9, <3>2, Zenon
    <3>3. CASE i # j.at
      <4>1. i \in 1 .. j.at - 1
        BY <3>1, <3>3
      <4>2. <<connection, j.channel, Types[i]>> \in subs
        BY <1>2, <4>1, Zenon
      <4>3. QED
        BY <1>3, <4>2, Zenon
    <3>4. QED
      BY <3>2, <3>3
  <2>2. CASE j.at = Len(Types)
    <3>1. k = None
      BY <1>9, <2>2 DEF NextType
    <3>2. \A t \in TypeNames : <<connection, j.channel, t>> \in subs'
      BY <2>1, <2>2, Numbers DEF TypeNames
    <3>3. QED
      BY <1>1, <1>5, <3>1, <3>2 DEF Progress, Subscribed
  <2>3. CASE j.at # Len(Types)
    <3>1. k = [j EXCEPT !.at = j.at + 1, !.tries = 0]
      BY <1>9, <2>3 DEF NextType
    <3>2. j.at + 1 \in DOMAIN Types /\ 0 \in 0 .. MaxRetries - 1
      BY <1>6, <2>3, Numbers
    <3>3. /\ k.session = j.session /\ k.channel = j.channel
          /\ k.at = j.at + 1 /\ k.tries = 0 /\ k \in Job
      BY <1>1, <3>1, <3>2 DEF Job
    <3>4. j.at + 1 - 1 = j.at
      BY <1>6, Numbers
    <3>5. job'[p] # None
      BY <1>5, <3>3, Numbers
    <3>6. Progress(p)'
      <4>1. \A i \in 1 .. k.at - 1 : <<connection', k.channel, Types[i]>> \in subs'
        BY <1>1, <1>6, <2>1, <3>3, <3>4
      <4>2. k.tries <= failures'
        BY <1>1, <3>3
      <4>3. QED
        BY <1>5, <4>1, <4>2 DEF Progress
    <3>7. QED
      BY <3>5, <3>6
  <2>4. QED
    BY <2>2, <2>3
<1>10. QED
  BY <1>7, <1>8, <1>9

\* What a run has subscribed stays while its connection is up.
LEMMA ProgressStays ==
    ASSUME NEW q \in Processes, Progress(q), job'[q] = job[q], connection' = connection,
           subs \subseteq subs', failures \in Nat, failures' \in Nat, failures <= failures',
           job[q] # None => job[q].tries \in Nat
    PROVE  Progress(q)'
<1> SUFFICES ASSUME job[q] # None, ~ Cancelled(q), job[q].session = connection
             PROVE  /\ \A i \in 1 .. job[q].at - 1 :
                          <<connection, job[q].channel, Types[i]>> \in subs'
                    /\ job[q].tries <= failures' \/ Subscription(job[q]) \in subs'
  BY DEF Progress, Cancelled
<1>1. /\ \A i \in 1 .. job[q].at - 1 : <<connection, job[q].channel, Types[i]>> \in subs
      /\ job[q].tries <= failures \/ Subscription(job[q]) \in subs
  BY DEF Progress
<1>2. QED
  BY <1>1

\* An answer takes a run on or ends it, with its channel subscribed.
LEMMA StepOfAnswer ==
    ASSUME IInv, NEW p \in Processes, Answered(p)
    PROVE  NoneForgotten'
<1> USE DEF IInv, Shape, TypeOK
<1>0. /\ UNCHANGED <<connection, opened, sessionID, welcome, todo, adding>>
      /\ subs \subseteq subs' /\ failures <= failures' /\ failures \in Nat /\ failures' \in Nat
      /\ \A q \in Processes : q # p => job'[q] = job[q]
      /\ job[p] \in Job /\ job[p] # None
  BY DEF Answered, connVars
<1> SUFFICES ASSUME connection # 0, failures' < MaxRetries
             PROVE  /\ \A q \in Processes : Progress(q)'
                    /\ \A d \in Channels : (Owed(d) \/ Awaited(d) \/ Subscribed(d))'
  BY <1>0 DEF NoneForgotten
<1>1. /\ \A q \in Processes : Progress(q)
      /\ \A d \in Channels : Owed(d) \/ Awaited(d) \/ Subscribed(d)
      /\ connection \in Connections /\ connection \in Processes
  BY <1>0, Numbers DEF NoneForgotten, Processes
<1>2. \A d \in Channels : Subscribed(d) => Subscribed(d)'
  BY <1>0 DEF Subscribed
<1>3. job'[p] # None =>
        job'[p].session = job[p].session /\ job'[p].channel = job[p].channel
  BY <1>0, Runs DEF Answered
<1>4. ~ Cancelled(p) /\ job[p].session = connection =>
        /\ Progress(p)'
        /\ \A c \in Channels : c = job[p].channel /\ job'[p] = None => Subscribed(c)'
  BY Passed
<1>5. ASSUME NEW q \in Processes PROVE Progress(q)'
  <2>1. CASE q # p
    <3>1. job[q] # None => job[q].tries \in Nat
      BY DEF Job
    <3> HIDE DEF IInv, Shape, TypeOK
    <3>2. QED
      BY <1>0, <1>1, <2>1, <3>1, ProgressStays
  <2>2. CASE q = p
    <3>1. CASE ~ Cancelled(p) /\ job[p].session = connection
      BY <1>4, <2>2, <3>1
    <3>2. CASE ~ (~ Cancelled(p) /\ job[p].session = connection)
      <4>1. CASE job'[p] = None
        BY <2>2, <4>1 DEF Progress
      <4>2. CASE job'[p] # None
        <5>1. Cancelled(p)' = Cancelled(p) /\ job'[p].session = job[p].session
          BY <1>0, <1>3, <4>2 DEF Cancelled
        <5>2. QED
          BY <1>0, <2>2, <3>2, <5>1 DEF Progress
      <4>3. QED
        BY <4>1, <4>2
    <3>3. QED
      BY <3>1, <3>2
  <2>3. QED
    BY <2>1, <2>2
<1>6. ASSUME NEW d \in Channels PROVE (Owed(d) \/ Awaited(d) \/ Subscribed(d))'
  <2>1. CASE Owed(d)
    <3>1. CASE d # p \/ adding[d] # "subscribing"
      BY <1>0, <2>1, <3>1 DEF Owed, Processes
    <3>2. CASE d = p /\ adding[d] = "subscribing"
      <4>1. job[p].session = connection /\ job[p].channel = d /\ ~ Cancelled(p)
        BY <1>0, <2>1, <3>2, Numbers DEF Owed, JobsOwned, Cancelled
      <4>2. CASE job'[p] = None
        BY <1>4, <4>1, <4>2
      <4>3. CASE job'[p] # None
        BY <1>0, <1>3, <3>2, <4>1, <4>3 DEF Owed
      <4>4. QED
        BY <4>2, <4>3
    <3>3. QED
      BY <3>1, <3>2
  <2>2. CASE Awaited(d)
    <3>1. CASE p = connection /\ job[p].channel = d
      <4>1. job[p].session = connection /\ ~ Cancelled(p) /\ welcome[connection] = "locked"
        BY <1>0, <1>1, <3>1 DEF JobsOwned, Cancelled
      <4>2. CASE job'[p] = None
        BY <1>4, <3>1, <4>1, <4>2
      <4>3. CASE job'[p] # None
        BY <1>0, <1>3, <3>1, <4>1, <4>3 DEF Awaited
      <4>4. QED
        BY <4>2, <4>3
    <3>2. CASE ~ (p = connection /\ job[p].channel = d)
      BY <1>0, <1>1, <2>2, <3>2 DEF Awaited
    <3>3. QED
      BY <3>1, <3>2
  <2>3. QED
    BY <1>1, <1>2, <2>1, <2>2
<1>7. QED
  BY <1>5, <1>6

\* One step of the session.
LEMMA NextInv == IInv /\ [Next]_vars => IInv'
<1> SUFFICES ASSUME IInv, [Next]_vars PROVE IInv'
  OBVIOUS
<1>1. Shape'
  BY NextShape DEF IInv
<1>2. NoneForgotten'
  <2>1. CASE UNCHANGED vars
    BY <2>1 DEF vars, connVars, IInv, NoneForgotten, Progress, Owed, Awaited, Subscribed,
                Cancelled, Subscription
  <2>2. ASSUME NEW p \in Processes, Request(p) \/ FailRequest(p) PROVE NoneForgotten'
    BY <2>2, RequestAnswered, StepOfAnswer DEF IInv
  <2>3. QED
    BY <2>1, <2>2, NewConnection, StepOfWelcome, StepOfAddChannel DEF Next
<1>3. QED
  BY <1>1, <1>2 DEF IInv

\* Once the welcome of the session in force is handled, every channel whose
\* AddChannel has returned is subscribed to everything under it, for any number
\* of channels, connections and event types, as long as fewer requests have
\* failed by themselves than one type is tried (event_sub.go:62-77, 157-172).
THEOREM ChannelsRemembered == Spec => []NoChannelForgotten
<1>1. IInv => NoChannelForgotten
  <2> SUFFICES ASSUME IInv, connection # 0, welcome[connection] = "done", failures < MaxRetries,
                      NEW c \in Channels, adding[c] = "done"
               PROVE  Subscribed(c)
    BY DEF NoChannelForgotten, IInv, Shape
  <2>1. ~ Owed(c) /\ ~ Awaited(c)
    BY DEF Owed, Awaited
  <2>2. QED
    BY <2>1 DEF IInv, NoneForgotten
<1>2. QED
  BY <1>1, InitInv, NextInv, PTL DEF Spec

-----------------------------------------------------------------------------
(* IRCWaiter.                                                              *)

\* A channel holds what IRC has said of its own message.
HoldsReport == \A w \in Waiters : buf[w] # Empty => buf[w] = reported[MsgOf[w]]

\* The notifier has a report for the channel it will send to, and room in it:
\* it looks a message up once, and a channel is filled only by it.
SendsReport == \A w \in sending : buf[w] = Empty /\ reported[MsgOf[w]] # Empty

WaiterInv == NoChannelLeak /\ HoldsReport /\ SendsReport /\ FirstIsGenuine

\* A wait that moves on is the only one that does.
LEMMA MoveKeeps ==
    ASSUME WaiterTypeOK, NEW w \in Waiters, NEW from,
           NEW to \in {"idle", "waiting", "leaving", "done"}, Move(w, from, to)
    PROVE  /\ wait' \in [Waiters -> {"idle", "waiting", "leaving", "done"}]
           /\ wait[w] = from /\ wait'[w] = to
           /\ \A v \in Waiters : v # w => wait'[v] = wait[v]
BY DEF WaiterTypeOK, Move

\* A result that is stored is a pair of booleans, and the other waits keep
\* theirs.
LEMMA ResultKeeps ==
    ASSUME WaiterTypeOK, NEW w \in Waiters, NEW isFirst \in BOOLEAN, NEW answered \in BOOLEAN,
           result' = [result EXCEPT ![w] = <<isFirst, answered>>]
    PROVE  /\ result' \in [Waiters -> BOOLEAN \X BOOLEAN]
           /\ result'[w][1] = isFirst
           /\ \A v \in Waiters : v # w => result'[v] = result[v]
BY DEF WaiterTypeOK

\* No channel, no wait, no report.
LEMMA WaiterInitInv == WaiterInit => WaiterInv
<1> SUFFICES ASSUME WaiterInit PROVE WaiterInv
  OBVIOUS
<1>1. WaiterTypeOK
  <2>1. DOMAIN chans = {}
    BY DEF WaiterInit
  <2>2. NoResult \in BOOLEAN \X BOOLEAN
    BY DEF NoResult
  <2>3. crashed \in BOOLEAN
    BY DEF WaiterInit
  <2>4. QED
    BY <2>1, <2>2, <2>3 DEF WaiterInit, WaiterTypeOK
<1>2. NoChannelLeak
  BY <1>1 DEF WaiterInit, NoChannelLeak
<1>3. HoldsReport /\ SendsReport
  BY DEF WaiterInit, HoldsReport, SendsReport
<1>4. FirstIsGenuine
  BY DEF WaiterInit, FirstIsGenuine, NoResult
<1>5. QED
  BY <1>2, <1>3, <1>4 DEF WaiterInv

\* A wait registers its channel: under its own id.
LEMMA RegisterKeeps ==
    ASSUME WaiterInv, NEW w \in Waiters, RegisterChannel(w)
    PROVE  WaiterInv'
<1>0. WaiterTypeOK
  BY DEF WaiterInv, NoChannelLeak
<1>1. /\ wait' \in [Waiters -> {"idle", "waiting", "leaving", "done"}]
      /\ wait'[w] = "waiting"
      /\ \A v \in Waiters : v # w => wait'[v] = wait[v]
  BY <1>0, MoveKeeps DEF RegisterChannel
<1>2. /\ MsgOf[w] \in Msgs
      /\ DOMAIN chans' = DOMAIN chans \cup {MsgOf[w]}
      /\ \A m \in DOMAIN chans' : chans'[m] = IF m = MsgOf[w] THEN w ELSE chans[m]
      /\ UNCHANGED <<buf, closed, result, reported, sending, crashed>>
  BY WaiterAssumption DEF RegisterChannel
<1>3. WaiterTypeOK'
  BY <1>0, <1>1, <1>2 DEF WaiterTypeOK
<1>4. \A m \in DOMAIN chans' : wait'[chans'[m]] \in {"waiting", "leaving"}
  BY <1>0, <1>1, <1>2 DEF WaiterInv, NoChannelLeak, WaiterTypeOK
<1>5. QED
  BY <1>2, <1>3, <1>4 DEF WaiterInv, NoChannelLeak, HoldsReport, SendsReport, FirstIsGenuine

\* A wait ends: it is told what its channel holds, or "not the first".
LEMMA EndKeeps ==
    ASSUME WaiterInv, NEW w \in Waiters, Answer(w) \/ AnswerClosed(w) \/ Timeout(w)
    PROVE  WaiterInv'
<1>0. WaiterTypeOK
  BY DEF WaiterInv, NoChannelLeak
<1>1. /\ wait' \in [Waiters -> {"idle", "waiting", "leaving", "done"}]
      /\ wait'[w] = "leaving"
      /\ \A v \in Waiters : v # w => wait'[v] = wait[v]
  BY <1>0, MoveKeeps DEF Answer, AnswerClosed, Timeout
<1>2. /\ UNCHANGED <<chans, closed, reported, sending, crashed>>
      /\ buf' = buf \/ (buf' = [buf EXCEPT ![w] = Empty])
  BY DEF Answer, AnswerClosed, Timeout
<1>3. PICK isFirst \in BOOLEAN, answered \in BOOLEAN :
         /\ result' = [result EXCEPT ![w] = <<isFirst, answered>>]
         /\ isFirst = TRUE => reported[MsgOf[w]] = TRUE
  <2>1. CASE Answer(w)
    <3>1. buf[w] \in BOOLEAN /\ buf[w] = reported[MsgOf[w]]
      BY <1>0, <2>1 DEF Answer, WaiterTypeOK, WaiterInv, HoldsReport
    <3>2. QED
      BY <2>1, <3>1 DEF Answer
  <2>2. CASE AnswerClosed(w) \/ Timeout(w)
    BY <2>2 DEF AnswerClosed, Timeout
  <2>3. QED
    BY <2>1, <2>2
<1>4. /\ result' \in [Waiters -> BOOLEAN \X BOOLEAN]
      /\ result'[w][1] = isFirst
      /\ \A v \in Waiters : v # w => result'[v] = result[v]
  BY <1>0, <1>3, ResultKeeps
<1>5. buf' \in [Waiters -> BOOLEAN \cup {Empty}] /\ \A v \in Waiters : buf'[v] \in {buf[v], Empty}
  BY <1>0, <1>2 DEF WaiterTypeOK
<1>6. WaiterTypeOK'
  BY <1>0, <1>1, <1>2, <1>4, <1>5 DEF WaiterTypeOK
<1>7. NoChannelLeak'
  BY <1>0, <1>1, <1>2, <1>6 DEF WaiterInv, NoChannelLeak, WaiterTypeOK
<1>8. HoldsReport' /\ SendsReport'
  BY <1>0, <1>2, <1>5 DEF WaiterInv, HoldsReport, SendsReport, WaiterTypeOK
<1>9. FirstIsGenuine'
  <2> SUFFICES ASSUME NEW v \in Waiters, result'[v][1]
               PROVE  reported'[MsgOf[v]] = TRUE
    BY DEF FirstIsGenuine
  <2>1. CASE v = w
    <3>1. isFirst = TRUE
      BY <1>4, <2>1
    <3>2. QED
      BY <1>2, <1>3, <2>1, <3>1
  <2>2. CASE v # w
    BY <1>2, <1>4, <2>2 DEF WaiterInv, FirstIsGenuine
  <2>3. QED
    BY <2>1, <2>2
<1>10. QED
  BY <1>7, <1>8, <1>9 DEF WaiterInv

\* A wait that leaves takes away whatever is stored under its id, so nothing
\* of it stays: its channel can be stored under no other.
LEMMA LeaveKeeps ==
    ASSUME WaiterInv, NEW w \in Waiters, Leave(w)
    PROVE  WaiterInv'
<1>0. WaiterTypeOK
  BY DEF WaiterInv, NoChannelLeak
<1>1. /\ wait' \in [Waiters -> {"idle", "waiting", "leaving", "done"}]
      /\ \A v \in Waiters : v # w => wait'[v] = wait[v]
  BY <1>0, MoveKeeps DEF Leave
<1>2. /\ DOMAIN chans' = DOMAIN chans \ {MsgOf[w]}
      /\ \A m \in DOMAIN chans' : chans'[m] = chans[m]
      /\ UNCHANGED <<buf, closed, result, reported, sending, crashed>>
  BY DEF Leave, Without
<1>3. WaiterTypeOK'
  BY <1>0, <1>1, <1>2 DEF WaiterTypeOK
<1>4. \A m \in DOMAIN chans' : chans'[m] # w
  BY <1>0, <1>2 DEF WaiterTypeOK
<1>5. NoChannelLeak'
  BY <1>0, <1>1, <1>2, <1>3, <1>4 DEF WaiterInv, NoChannelLeak, WaiterTypeOK
<1>6. QED
  BY <1>2, <1>5 DEF WaiterInv, NoChannelLeak, HoldsReport, SendsReport, FirstIsGenuine

\* IRC reports a message once, so the channel that will get the report is
\* still empty.
LEMMA NotifyLookupKeeps ==
    ASSUME WaiterInv, NEW m \in Msgs, NEW isFirst \in BOOLEAN, NotifyLookup(m, isFirst)
    PROVE  WaiterInv'
<1>0. WaiterTypeOK
  BY DEF WaiterInv, NoChannelLeak
<1>1. /\ reported[m] = Empty
      /\ reported' = [reported EXCEPT ![m] = isFirst]
      /\ sending' = {chans[k] : k \in DOMAIN chans \cap {m}}
      /\ UNCHANGED <<chans, buf, closed, wait, result, crashed>>
  BY DEF NotifyLookup
<1>2. /\ reported' \in [Msgs -> BOOLEAN \cup {Empty}]
      /\ reported'[m] = isFirst
      /\ \A k \in Msgs : k # m => reported'[k] = reported[k]
  BY <1>0, <1>1 DEF WaiterTypeOK
<1>3. \A w \in Waiters : MsgOf[w] \in Msgs
  BY WaiterAssumption
<1>4. \A w \in Waiters : MsgOf[w] = m => buf[w] = Empty
  BY <1>1 DEF WaiterInv, HoldsReport
<1>5. \A w \in sending' : w \in Waiters /\ MsgOf[w] = m
  BY <1>0, <1>1 DEF WaiterTypeOK
<1>6. WaiterTypeOK'
  BY <1>0, <1>1, <1>2, <1>5 DEF WaiterTypeOK
<1>7. NoChannelLeak'
  BY <1>1, <1>6 DEF WaiterInv, NoChannelLeak
<1>8. HoldsReport'
  BY <1>1, <1>2, <1>3, <1>4 DEF WaiterInv, HoldsReport
<1>9. SendsReport'
  BY <1>1, <1>2, <1>4, <1>5, WaiterAssumption DEF SendsReport
<1>10. FirstIsGenuine'
  BY <1>1, <1>2, <1>3, WaiterAssumption DEF WaiterInv, FirstIsGenuine
<1>11. QED
  BY <1>7, <1>8, <1>9, <1>10 DEF WaiterInv

\* What is sent to a channel is the report on its own message.
LEMMA NotifySendKeeps ==
    ASSUME WaiterInv, NotifySend
    PROVE  WaiterInv'
<1>0. WaiterTypeOK
  BY DEF WaiterInv, NoChannelLeak
<1>1. UNCHANGED <<chans, closed, wait, result, reported>>
  BY DEF NotifySend
<1>2. PICK w \in sending :
         IF w \in closed
         THEN crashed' = TRUE /\ UNCHANGED <<buf, sending>>
         ELSE /\ buf' = [buf EXCEPT ![w] = reported[MsgOf[w]]]
              /\ sending' = {}
              /\ UNCHANGED crashed
  BY DEF NotifySend
<1>3. CASE w \in closed
  <2>1. WaiterTypeOK'
    BY <1>0, <1>1, <1>2, <1>3 DEF WaiterTypeOK
  <2>2. QED
    BY <1>1, <1>2, <1>3, <2>1
       DEF WaiterInv, NoChannelLeak, HoldsReport, SendsReport, FirstIsGenuine
<1>4. CASE w \notin closed
  <2>1. /\ buf' \in [Waiters -> BOOLEAN \cup {Empty}]
        /\ \A v \in Waiters : buf'[v] = IF v = w THEN reported[MsgOf[w]] ELSE buf[v]
    <3>1. w \in Waiters /\ MsgOf[w] \in Msgs
      BY <1>0, <1>2, WaiterAssumption DEF WaiterTypeOK
    <3>2. reported[MsgOf[w]] \in BOOLEAN \cup {Empty}
      BY <1>0, <3>1 DEF WaiterTypeOK
    <3>3. buf' = [buf EXCEPT ![w] = reported[MsgOf[w]]]
      BY <1>2, <1>4
    <3>4. buf \in [Waiters -> BOOLEAN \cup {Empty}]
      BY <1>0 DEF WaiterTypeOK
    <3>5. QED
      BY <3>1, <3>2, <3>3, <3>4
  <2>2. sending' = {} /\ crashed' = crashed
    BY <1>2, <1>4
  <2>3. WaiterTypeOK'
    BY <1>0, <1>1, <2>1, <2>2 DEF WaiterTypeOK
  <2>4. QED
    BY <1>1, <2>1, <2>2, <2>3
       DEF WaiterInv, NoChannelLeak, HoldsReport, SendsReport, FirstIsGenuine
<1>5. QED
  BY <1>3, <1>4

\* The clean-up only empties and forgets.
LEMMA CleanupKeeps ==
    ASSUME WaiterInv, Cleanup
    PROVE  WaiterInv'
<1>0. WaiterTypeOK
  BY DEF WaiterInv, NoChannelLeak
<1>1. /\ DOMAIN chans' = {}
      /\ UNCHANGED <<wait, result, reported, sending, crashed>>
      /\ buf' \in [Waiters -> BOOLEAN \cup {Empty}]
      /\ \A w \in Waiters : buf'[w] \in {buf[w], Empty}
      /\ closed' \subseteq Waiters
  BY <1>0 DEF Cleanup, Stored, WaiterTypeOK
<1>2. WaiterTypeOK'
  BY <1>0, <1>1 DEF WaiterTypeOK
<1>3. QED
  BY <1>0, <1>1, <1>2
     DEF WaiterInv, NoChannelLeak, HoldsReport, SendsReport, FirstIsGenuine, WaiterTypeOK

\* Every step keeps the invariant.
LEMMA WaiterNextInv == WaiterInv /\ [WaiterNext]_waiterVars => WaiterInv'
<1> SUFFICES ASSUME WaiterInv, [WaiterNext]_waiterVars PROVE WaiterInv'
  OBVIOUS
<1>1. ASSUME NEW w \in Waiters,
             RegisterChannel(w) \/ Answer(w) \/ AnswerClosed(w) \/ Timeout(w) \/ Leave(w)
      PROVE  WaiterInv'
  BY <1>1, RegisterKeeps, EndKeeps, LeaveKeeps
<1>2. ASSUME NEW m \in Msgs, NEW isFirst \in BOOLEAN, NotifyLookup(m, isFirst)
      PROVE  WaiterInv'
  BY <1>2, NotifyLookupKeeps
<1>3. CASE NotifySend \/ Cleanup
  BY <1>3, NotifySendKeeps, CleanupKeeps
<1>4. CASE UNCHANGED waiterVars
  BY <1>4 DEF waiterVars, WaiterInv, NoChannelLeak, WaiterTypeOK, HoldsReport, SendsReport, FirstIsGenuine
<1>5. QED
  BY <1>1, <1>2, <1>3, <1>4 DEF WaiterNext

\* What is proved of each step, for all behaviours.
LEMMA WaiterInvariant == WaiterSpec => []WaiterInv
  BY WaiterInitInv, WaiterNextInv, PTL DEF WaiterSpec

\* Whatever waits time out, are cleaned up or are for one and the same message:
\* a message is taken for a first one only if IRC said so of that message.
THEOREM FirstAlwaysGenuine == WaiterSpec => []FirstIsGenuine
<1>1. WaiterInv => FirstIsGenuine
  BY DEF WaiterInv
<1>2. QED
  BY <1>1, WaiterInvariant, PTL

\* The read loop of IRC always finds room in the channel it is to send to.
THEOREM NotifierNeverWaits == WaiterSpec => []NotifierNeverBlocks
<1>1. WaiterInv => NotifierNeverBlocks
  BY DEF WaiterInv, SendsReport, NotifierNeverBlocks
<1>2. QED
  BY <1>1, WaiterInvariant, PTL

\* No call that has returned leaves its channel in the table, and every
\* variable has its type.
THEOREM NoChannelEverLeaks == WaiterSpec => []NoChannelLeak
<1>1. WaiterInv => NoChannelLeak
  BY DEF WaiterInv
<1>2. QED
  BY <1>1, WaiterInvariant, PTL
=============================================================================
