---------------------------- MODULE CommandTable ----------------------------
(***************************************************************************)
(* The commands and the aliases of one channel together: a message is      *)
(* rewritten by the trie (Aliases) and what it has become may call a       *)
(* command (CommandLimits); a command that is deleted takes its single     *)
(* aliases with it, and a start makes the trie and forgets the buckets.    *)
(***************************************************************************)
EXTENDS Aliases, CommandLimits

ASSUME TableAssumption == Commands \subseteq Originals

vars == <<aliasVars, limitVars>>

Init == AliasInit /\ LimitInit

\* A message that is n and is not for moderators.
Message(h, n) ==
    /\ Replace(installed, n) \in Commands
    /\ Hear(h, Replace(installed, n))
    /\ UNCHANGED aliasVars

\* "!am cmd ..." is not rewritten.
ModeratorStep(c) ==
    /\ AddCommand(c) \/ SetCommandLimiter(c) \/ DelCommandLimiter(c)
    /\ UNCHANGED aliasVars

DelCommand(c) ==
    /\ RemoveCommand(c)
    /\ ForgetAliasesOf(c)

HandlerStep(h) ==
    /\ ReadRate(h) \/ InstallRate(h) \/ Allow(h)
    /\ UNCHANGED aliasVars

TimeStep ==
    /\ (\E c \in Commands : Refill(c)) \/ RefillUser
    /\ UNCHANGED aliasVars

AliasStep ==
    /\ AliasCommand
    /\ UNCHANGED limitVars

Restart ==
    /\ Reload
    /\ StartAgain

Panic(h) ==
    /\ Panics(h)
    /\ Reload
    /\ StartAgain

Next ==
    \/ \E h \in Handlers, n \in Keys : Message(h, n)
    \/ \E c \in Commands : ModeratorStep(c) \/ DelCommand(c)
    \/ \E h \in Handlers : HandlerStep(h) \/ Panic(h)
    \/ TimeStep
    \/ AliasStep
    \/ Restart

Spec == Init /\ [][Next]_vars

-----------------------------------------------------------------------------

TypeOK == AliasTypeOK /\ LimitTypeOK
=============================================================================
