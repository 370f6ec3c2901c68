------------------------------ MODULE IRCWaiter ------------------------------
(***************************************************************************)
(* The rendezvous between EventSub and IRC                                 *)
(* (adapters/platform/twitch/irc/waiter.go).  A worker that handles a chat *)
(* message from EventSub waits, by message id, for the IRC read loop to    *)
(* say whether it is its author's first message; a clean-up loop empties   *)
(* the table of waiting channels every second.                             *)
(*                                                                         *)
(* Each waiter makes one channel of capacity 1, so a channel is named by   *)
(* its waiter.  EventSub may deliver a message twice, so two waiters may   *)
(* wait for one id; IRC reports an id at most once.  The 250 ms timer may  *)
(* expire at any moment of the wait.                                       *)
(***************************************************************************)
EXTENDS FiniteSets

CONSTANTS
    Waiters,   \* calls of WaitForIRC
    Msgs,      \* message ids
    MsgOf,     \* the id each call waits for
    Empty      \* nothing: an empty buffer, an id IRC has not reported

ASSUME WaiterAssumption ==
    /\ MsgOf \in [Waiters -> Msgs]
    /\ Empty \notin BOOLEAN

VARIABLES
    chans,      \* IRC.chans: message id -> channel
    buf,        \* what each channel holds
    closed,     \* the channels that are closed
    wait,       \* where each call of WaitForIRC is
    result,     \* what it returns: <<isFirst, answered>>
    reported,   \* what IRC has said of each id so far
    sending,    \* the channel NotifyIRC has looked up and will send to
    crashed     \* a send on a closed channel ended the process

waiterVars == <<chans, buf, closed, wait, result, reported, sending, crashed>>

NoResult == <<FALSE, FALSE>>

WaiterInit ==
    /\ chans = <<>>
    /\ buf = [w \in Waiters |-> Empty]
    /\ closed = {}
    /\ wait = [w \in Waiters |-> "idle"]
    /\ result = [w \in Waiters |-> NoResult]
    /\ reported = [m \in Msgs |-> Empty]
    /\ sending = {}
    /\ crashed = FALSE

Without(f, S) == [m \in DOMAIN f \ S |-> f[m]]

Move(w, from, to) ==
    /\ ~ crashed
    /\ wait[w] = from
    /\ wait' = [wait EXCEPT ![w] = to]

-----------------------------------------------------------------------------
(* WaitForIRC                                                              *)

\* The channel takes the place of one another call may have stored.
RegisterChannel(w) ==
    /\ Move(w, "idle", "waiting")
    /\ chans' = [m \in DOMAIN chans \cup {MsgOf[w]} |->
                    IF m = MsgOf[w] THEN w ELSE chans[m]]
    /\ UNCHANGED <<buf, closed, result, reported, sending, crashed>>

Answer(w) ==
    /\ Move(w, "waiting", "leaving")
    /\ buf[w] # Empty
    /\ result' = [result EXCEPT ![w] = <<buf[w], TRUE>>]
    /\ buf' = [buf EXCEPT ![w] = Empty]
    /\ UNCHANGED <<chans, closed, reported, sending, crashed>>

\* A receive from a closed, empty channel yields false, at once.
AnswerClosed(w) ==
    /\ Move(w, "waiting", "leaving")
    /\ buf[w] = Empty /\ w \in closed
    /\ result' = [result EXCEPT ![w] = <<FALSE, TRUE>>]
    /\ UNCHANGED <<chans, buf, closed, reported, sending, crashed>>

\* Mutant: a wait that times out takes the message for a first one.
TimeoutIsFirst(w) ==
    /\ Move(w, "waiting", "leaving")
    /\ result' = [result EXCEPT ![w] = <<TRUE, FALSE>>]
    /\ UNCHANGED <<chans, buf, closed, reported, sending, crashed>>

\* Mutant: the delete is not deferred, and a timed-out wait skips it.
TimeoutKeepsEntry(w) ==
    /\ Move(w, "waiting", "done")
    /\ result' = [result EXCEPT ![w] = <<FALSE, FALSE>>]
    /\ UNCHANGED <<chans, buf, closed, reported, sending, crashed>>

\* Mutant: the select has no timer.
TimeoutNever(w) == FALSE

Timeout(w) ==
    /\ Move(w, "waiting", "leaving")
    /\ result' = [result EXCEPT ![w] = <<FALSE, FALSE>>]
    /\ UNCHANGED <<chans, buf, closed, reported, sending, crashed>>

\* The deferred delete removes whatever is stored under the id.
Leave(w) ==
    /\ Move(w, "leaving", "done")
    /\ chans' = Without(chans, {MsgOf[w]})
    /\ UNCHANGED <<buf, closed, result, reported, sending, crashed>>

-----------------------------------------------------------------------------
(* NotifyIRC, called by the one IRC read loop.                             *)

\* The channel is looked up under the lock and used after the unlock.
NotifyLookup(m, isFirst) ==
    /\ ~ crashed
    /\ sending = {}
    /\ reported[m] = Empty
    /\ reported' = [reported EXCEPT ![m] = isFirst]
    /\ sending' = {chans[k] : k \in DOMAIN chans \cap {m}}
    /\ UNCHANGED <<chans, buf, closed, wait, result, crashed>>

\* A send to a full channel has to wait; one to a closed channel panics.
NotifySend ==
    /\ ~ crashed
    /\ \E w \in sending :
          IF w \in closed
          THEN /\ crashed' = TRUE
               /\ UNCHANGED <<buf, sending>>
          ELSE /\ buf[w] = Empty
               /\ buf' = [buf EXCEPT ![w] = reported[MsgOf[w]]]
               /\ sending' = {}
               /\ UNCHANGED crashed
    /\ UNCHANGED <<chans, closed, wait, result, reported>>

-----------------------------------------------------------------------------
(* cleanupLoop: a full channel is emptied, an empty one is closed, and all *)
(* are forgotten; the timer of a wait is not looked at.                    *)

Stored == {chans[m] : m \in DOMAIN chans}

\* Mutant: the loop answers FALSE on an empty channel instead of closing it.
CleanupAnswers ==
    /\ ~ crashed
    /\ chans # <<>>
    /\ buf' = [w \in Waiters |-> IF w \notin Stored THEN buf[w]
                                 ELSE IF buf[w] = Empty THEN FALSE ELSE Empty]
    /\ chans' = <<>>
    /\ UNCHANGED <<closed, wait, result, reported, sending, crashed>>

Cleanup ==
    /\ ~ crashed
    /\ chans # <<>>
    /\ buf' = [w \in Waiters |-> IF w \in Stored THEN Empty ELSE buf[w]]
    /\ closed' = closed \cup {w \in Stored : buf[w] = Empty}
    /\ chans' = <<>>
    /\ UNCHANGED <<wait, result, reported, sending, crashed>>

WaiterNext ==
    \/ \E w \in Waiters :
          RegisterChannel(w) \/ Answer(w) \/ AnswerClosed(w) \/ Timeout(w) \/ Leave(w)
    \/ \E m \in Msgs, isFirst \in BOOLEAN : NotifyLookup(m, isFirst)
    \/ NotifySend
    \/ Cleanup

\* The timer of a wait expires, the deferred delete runs, and a goroutine
\* that can send is scheduled; nothing obliges IRC to report a message.
WaiterFairness ==
    /\ \A w \in Waiters : WF_waiterVars(Timeout(w)) /\ WF_waiterVars(Leave(w))
    /\ WF_waiterVars(NotifySend)

WaiterSpec == WaiterInit /\ [][WaiterNext]_waiterVars /\ WaiterFairness

-----------------------------------------------------------------------------
(* Properties.                                                             *)

WaiterTypeOK ==
    /\ DOMAIN chans \subseteq Msgs
    /\ \A m \in DOMAIN chans : chans[m] \in Waiters /\ MsgOf[chans[m]] = m
    /\ buf \in [Waiters -> BOOLEAN \cup {Empty}]
    /\ closed \subseteq Waiters
    /\ wait \in [Waiters -> {"idle", "waiting", "leaving", "done"}]
    /\ result \in [Waiters -> BOOLEAN \X BOOLEAN]
    /\ reported \in [Msgs -> BOOLEAN \cup {Empty}]
    /\ sending \subseteq Waiters
    /\ crashed \in BOOLEAN

\* A message is taken for its author's first only if IRC said so of that
\* very message, whatever timeouts, clean-ups and duplicates happen.
FirstIsGenuine ==
    \A w \in Waiters : result[w][1] => reported[MsgOf[w]] = TRUE

\* The IRC read loop never blocks in NotifyIRC: the channel it is about to
\* send to has room.
NotifierNeverBlocks == \A w \in sending : buf[w] = Empty

\* A call that has returned leaves no channel behind in the table.
NoChannelLeak ==
    /\ WaiterTypeOK
    /\ \A m \in DOMAIN chans : wait[chans[m]] \in {"waiting", "leaving"}

\* Every wait ends, unless the process dies.
EveryWaitEnds ==
    \A w \in Waiters : wait[w] = "waiting" ~> wait[w] = "done" \/ crashed

\* "The second parameter says whether it waited for the answer or not": an
\* answered wait has the answer IRC gave.  The code breaks it, because a
\* channel closed by the clean-up loop reads like an answer.
AnsweredMeansReported ==
    \A w \in Waiters : result[w][2] => reported[MsgOf[w]] = result[w][1]
=============================================================================
