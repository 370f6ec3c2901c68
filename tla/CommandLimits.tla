--------------------------- MODULE CommandLimits ---------------------------
(***************************************************************************)
(* The commands of one channel that viewers call                           *)
(* (adapters/message/user/user.go, adapters/message/admin/commands.go) and *)
(* the limits on how often: one on each viewer, made at the first message, *)
(* and one a command may have (adapters/message/admin/commands_limiters.go)*)
(*                                                                         *)
(* A limiter is a record of the configuration with a pointer to a token    *)
(* bucket, which is not saved: after a start the first viewer to call the  *)
(* command makes it.  Messages are handled concurrently, and a handler     *)
(* reads the limiter without the configuration's lock and uses it after    *)
(* other steps.  Messages are of one viewer who is no moderator, with one  *)
(* command each, in lower case; a command's options, which say who may     *)
(* call it and when, and its text are left out.                            *)
(***************************************************************************)
EXTENDS Integers, FiniteSets

CONSTANTS
    Commands,      \* names of commands
    Handlers,      \* messages handled at once
    Requests,      \* what a command's limiter allows
    UserRequests,  \* what cfg.Limiter allows a viewer
    Gone,          \* the command does not exist
    NoLimit,       \* it has no limiter
    Unset          \* the limiter has no bucket; the viewer has none

ASSUME LimitsAssumption ==
    /\ Requests \in Nat \ {0} /\ UserRequests \in Nat \ {0}
    /\ IsFiniteSet(Handlers)
    /\ Gone # NoLimit /\ Unset \notin {Gone, NoLimit}
    /\ {Gone, NoLimit, Unset} \cap Nat = {}

VARIABLES
    limit,    \* cfg.Channels[ch].Commands: of a command the tokens in its bucket
    user,     \* the tokens in the viewer's bucket
    handler,  \* what each handler is doing
    answers   \* answers each command's present limiter allowed, less refills

limitVars == <<limit, user, handler, answers>>

Bucket  == (0 .. Requests) \cup {Unset}
Limited(c) == limit[c] \in Bucket

\* held: the limiter the handler has read is the command's, or one it had, with
\* no bucket or with one.
Idle == [at |-> "idle"]
Call == [at : {"read", "install", "allow"}, command : Commands,
         held : {"current", "oldUnset", "oldMade"}]

Called(h)   == handler[h].command
Current(h)  == handler[h].held = "current"
HeldUnset(h) ==
    IF Current(h) THEN limit[Called(h)] = Unset ELSE handler[h].held = "oldUnset"

Goes(h, at) == handler' = [handler EXCEPT ![h].at = at]
Ends(h)     == handler' = [handler EXCEPT ![h] = Idle]

-----------------------------------------------------------------------------
(* Moderators' commands, each under the configuration's lock.              *)

\* The command gets another limiter, or none; a handler keeps the one it has.
Replaced(c, new) ==
    /\ limit' = [limit EXCEPT ![c] = new]
    /\ answers' = [answers EXCEPT ![c] = 0]
    /\ handler' = [h \in Handlers |->
                     IF handler[h] # Idle /\ Called(h) = c /\ Current(h)
                     THEN [handler[h] EXCEPT !.held =
                             IF limit[c] = Unset THEN "oldUnset" ELSE "oldMade"]
                     ELSE handler[h]]
    /\ UNCHANGED user

AddCommand(c) == Replaced(c, NoLimit)

RemoveCommand(c) == limit[c] # Gone /\ Replaced(c, Gone)

\* AddCommandLimiter and SetCommandLimiter: a new record with a full bucket.
\* They differ in how fast it is refilled.
SetCommandLimiter(c) == limit[c] # Gone /\ Replaced(c, Requests)

DelCommandLimiter(c) == limit[c] # Gone /\ Replaced(c, NoLimit)

-----------------------------------------------------------------------------
(* A viewer's message, from handleCommands on.                             *)

\* ensureUserLimiter
Ensured == IF user = Unset THEN UserRequests ELSE user

\* The message calls command c.  A viewer with no tokens left is not answered;
\* a command without a limiter answers at once.
Hear(h, c) ==
    /\ handler[h] = Idle
    /\ user' = IF limit[c] # Gone /\ Ensured > 0 THEN Ensured - 1 ELSE Ensured
    /\ IF Limited(c) /\ Ensured > 0
       THEN handler' = [handler EXCEPT ![h] =
                          [at |-> "read", command |-> c, held |-> "current"]]
       ELSE UNCHANGED handler
    /\ UNCHANGED <<limit, answers>>

\* Mutant: the bucket is made whether there is one or not.
ReadRateAlwaysUnset(h) ==
    /\ handler[h].at = "read"
    /\ Goes(h, "install")
    /\ UNCHANGED <<limit, user, answers>>

ReadRate(h) ==
    /\ handler[h].at = "read"
    /\ Goes(h, IF HeldUnset(h) THEN "install" ELSE "allow")
    /\ UNCHANGED <<limit, user, answers>>

\* The update finds the command by its name: the limiter it makes the bucket of
\* is the one the command has by now.
InstallRate(h) ==
    /\ handler[h].at = "install"
    /\ Limited(Called(h))
    /\ limit' = [limit EXCEPT ![Called(h)] = Requests]
    /\ Goes(h, "allow")
    /\ UNCHANGED <<user, answers>>

\* The bucket of the limiter the handler has is asked; without one, the limiter
\* allows everything.
Allow(h) ==
    /\ handler[h].at = "allow"
    /\ Ends(h)
    /\ LET c == Called(h)
       IN  IF Current(h) /\ limit[c] # 0
           THEN /\ limit' = [limit EXCEPT ![c] = IF @ = Unset THEN Unset ELSE @ - 1]
                /\ answers' = [answers EXCEPT ![c] = @ + 1]
           ELSE UNCHANGED <<limit, answers>>
    /\ UNCHANGED user

-----------------------------------------------------------------------------

\* Mutant: a bucket is refilled beyond its size.
RefillBeyond(c) ==
    /\ limit[c] \in 0 .. Requests
    /\ limit' = [limit EXCEPT ![c] = @ + 1]
    /\ answers' = [answers EXCEPT ![c] = IF @ > 0 THEN @ - 1 ELSE 0]
    /\ UNCHANGED <<user, handler>>

\* Time gives a bucket a token.
Refill(c) ==
    /\ limit[c] \in 0 .. Requests - 1
    /\ limit' = [limit EXCEPT ![c] = @ + 1]
    /\ answers' = [answers EXCEPT ![c] = IF @ > 0 THEN @ - 1 ELSE 0]
    /\ UNCHANGED <<user, handler>>

RefillUser ==
    /\ user \in 0 .. UserRequests - 1
    /\ user' = user + 1
    /\ UNCHANGED <<limit, handler, answers>>

\* The configuration is read again, with limiters and no buckets.
StartAgain ==
    /\ limit' = [c \in Commands |-> IF Limited(c) THEN Unset ELSE limit[c]]
    /\ user' = Unset
    /\ handler' = [h \in Handlers |-> Idle]
    /\ answers' = [c \in Commands |-> 0]

\* The command, or its limiter, is gone when the bucket is to be made: the
\* update fails on a nil pointer, which ends the process.
Panics(h) == handler[h].at = "install" /\ ~ Limited(Called(h))

LimitInit ==
    /\ limit = [c \in Commands |-> Gone]
    /\ user = Unset
    /\ handler = [h \in Handlers |-> Idle]
    /\ answers = [c \in Commands |-> 0]

-----------------------------------------------------------------------------

LimitTypeOK ==
    /\ limit \in [Commands -> Bucket \cup {Gone, NoLimit}]
    /\ user \in (0 .. UserRequests) \cup {Unset}
    /\ handler \in [Handlers -> Call \cup {Idle}]
    /\ answers \in [Commands -> Nat]

\* A command answers as often as its limiter allows, once for the limiter and
\* once for each handler that may have found it without a bucket: a race of
\* first calls costs no more than that.
LimitHolds ==
    \A c \in Commands : answers[c] <= Requests * (1 + Cardinality(Handlers))

\* As often as its limiter allows.  The code breaks it: two first calls after a
\* start both find no bucket and each makes one.
LimitIsExact == \A c \in Commands : answers[c] <= Requests

\* No message ends the process.  The code breaks it: the command, or its
\* limiter, may be deleted between the two reads.
NeverPanics == \A h \in Handlers : ~ Panics(h)
=============================================================================
