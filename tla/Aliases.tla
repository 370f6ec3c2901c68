------------------------------ MODULE Aliases ------------------------------
(***************************************************************************)
(* Aliases of one channel: the two tables of the configuration (single     *)
(* aliases and groups of them, adapters/message/admin/aliases.go), and the *)
(* trie that is installed from them and rewrites every message before it   *)
(* is looked at (domain/template/aliases.go, adapters/message/message.go). *)
(* So it rewrites the very commands that manage aliases.                   *)
(*                                                                         *)
(* A message is a sequence of words, and so are an alias and what it       *)
(* stands for.  Words are in lower case: an alias with a capital is stored *)
(* as it is written and matches nothing.  A list of names written without  *)
(* blanks is one word.  A command runs under the lock of the configuration *)
(* and is one step; the save that ends it is ConfigManager's.              *)
(***************************************************************************)
EXTENDS SequencesExt, TLC

CONSTANTS
    Words,          \* what messages are made of
    Banged,         \* each word with a "!" before it, if it has none
    Names,          \* what can be made an alias
    Originals,      \* what an alias can be made to stand for, as it is written
    Lists,          \* the words that are lists: word -> sequence of names
    GroupNames,
    GlobalAliases   \* the aliases of every channel: name -> original

\* The words of the commands on aliases.
Keywords == {"!am", "al", "alg", "add", "del", "from", "create", "set", "on", "off"}

\* What can be an alias, or have one.
Phrase == Seq(Words) \ {<<>>}

ASSUME AliasAssumption ==
    /\ Names \cup Originals \cup DOMAIN GlobalAliases \subseteq Phrase
    /\ GlobalAliases \in [DOMAIN GlobalAliases -> Phrase]
    /\ Banged \in [Words -> Words]
    /\ Keywords \cup GroupNames \cup DOMAIN Lists \subseteq Words
    /\ \A l \in DOMAIN Lists : Lists[l] \in Seq(Names)

VARIABLES
    aliases,    \* cfg.Channels[ch].Aliases: name -> original
    groups,     \* cfg.Channels[ch].AliasGroups
    installed,  \* the trie: name -> original
    stale       \* the tables have changed since the trie was made

aliasVars == <<aliases, groups, installed, stale>>

\* An original becomes an alias by itself: see AddAlias.
Keys  == Names \cup Originals \cup DOMAIN GlobalAliases
Group == [enabled : BOOLEAN, aliases : SUBSET Phrase, original : Phrase]

-----------------------------------------------------------------------------
(* AliasesTemplate                                                         *)

\* The tables the trie may be made from: a group's alias wins over a single
\* one, that over a global one; of groups with the same alias any, in the order
\* of a Go map.
Merged(als, grps) ==
    LET on    == {g \in DOMAIN grps : grps[g].enabled}
        named == UNION {grps[g].aliases : g \in on}
        picks == {p \in [named -> on] : \A n \in named : n \in grps[p[n]].aliases}
    IN  {[n \in named \cup DOMAIN als \cup DOMAIN GlobalAliases |->
             IF n \in named THEN grps[p[n]].original
             ELSE IF n \in DOMAIN als THEN als[n] ELSE GlobalAliases[n]] : p \in picks}

\* Mutant: the trie is made of the tables as they were.
InstallBefore ==
    /\ installed' \in Merged(aliases, groups)
    /\ stale' = FALSE

Install ==
    /\ installed' \in Merged(aliases', groups')
    /\ stale' = FALSE

\* A refusal does not come to the line that makes it.
InstallIf(accepted) ==
    IF accepted THEN Install
    ELSE /\ stale' = (stale \/ <<aliases', groups'>> # <<aliases, groups>>)
         /\ UNCHANGED installed

\* The last place of the message where an alias begins, and the longest that
\* begins there, is replaced, once.
Replace(table, parts) ==
    LET found == {f \in (1 .. Len(parts)) \X DOMAIN table :
                    /\ f[1] + Len(f[2]) <= Len(parts) + 1
                    /\ SubSeq(parts, f[1], f[1] + Len(f[2]) - 1) = f[2]}
        start == CHOOSE i \in {f[1] : f \in found} : \A f \in found : f[1] <= i
        best  == CHOOSE name \in {f[2] : f \in {f \in found : f[1] = start}} :
                   \A f \in found : f[1] = start => Len(f[2]) <= Len(name)
    IN  IF found = {} THEN parts
        ELSE SubSeq(parts, 1, start - 1) \o table[best]
               \o SubSeq(parts, start + Len(best), Len(parts))

\* A command written as a head and arguments is executed if its head is not
\* rewritten, and with what its arguments have become.
Heard(head, args) ==
    LET parts == Replace(installed, head \o args)
    IN  [reaches |-> IsPrefix(head, parts), args |-> SubSeq(parts, Len(head) + 1, Len(parts))]

NamesIn(words) ==
    IF Len(words) = 1 /\ words[1] \in DOMAIN Lists THEN Lists[words[1]] ELSE <<words>>

\* An alias stands for a command: a missing "!" is added, after the rewriting, so
\* that a command written without it is not rewritten.
AsCommand(original) == [original EXCEPT ![1] = Banged[@]]

-----------------------------------------------------------------------------
(* Single aliases.                                                         *)

\* The name would hide a command on aliases: it holds "!am al " or "!am alg ".
Hides(name) ==
    \E i \in 1 .. Len(name) - 2 : name[i] = "!am" /\ name[i + 1] \in {"al", "alg"}

Resolved(original) ==
    IF original \in DOMAIN aliases THEN aliases[original] ELSE original

Refused(name, original) ==
    Hides(name) \/ name = original \/ name \in DOMAIN aliases

\* The places in the list before the first name that is refused: it ends the loop.
Accepted(names, original) ==
    {i \in DOMAIN names : \A j \in 1 .. i : ~ Refused(names[j], original)}

\* Of single aliases, a name that comes again is one already.
AcceptedOnce(names, original) ==
    {i \in Accepted(names, original) : \A j, k \in 1 .. i : names[j] = names[k] => j = k}

\* Mutant: the names are compared with the original as it was written.
AcceptedUnresolved(names, original) == AcceptedOnce(names, original)

AcceptedAliases(names, original) == AcceptedOnce(names, Resolved(original))

\* "!am al add <names> from <original>": a refusal leaves the names before it
\* stored and does not make the trie.
AddAlias(words, original) ==
    LET head  == <<"!am", "al", "add">>
        args  == words \o <<"from">> \o original
        said  == Heard(head, args)
        froms == {i \in 2 .. Len(said.args) - 1 : said.args[i] = "from"}
        from  == CHOOSE i \in froms : \A j \in froms : j <= i
        names == NamesIn(SubSeq(said.args, 1, from - 1))
        to    == AsCommand(SubSeq(said.args, from + 1, Len(said.args)))
        new   == AcceptedAliases(names, to)
        added == {names[i] : i \in new}
    IN  /\ said.reaches
        /\ froms # {}
        /\ aliases' = [n \in added \cup DOMAIN aliases |->
                         IF n \in added THEN Resolved(to) ELSE aliases[n]]
        /\ UNCHANGED groups
        /\ InstallIf(new = DOMAIN names)

\* "!am al del <names>"
DelAlias(words) ==
    LET said == Heard(<<"!am", "al", "del">>, words)
    IN  /\ said.reaches
        /\ said.args # <<>>
        /\ aliases' = Restrict(aliases, DOMAIN aliases \ ToSet(NamesIn(said.args)))
        /\ UNCHANGED groups
        /\ Install

-----------------------------------------------------------------------------
(* Groups: a refusal, but for that of AddAliasGroup, changes nothing.      *)

CreateAliasGroup(g, original) ==
    LET said == Heard(<<"!am", "alg", "create", g>>, original)
    IN  /\ g \notin DOMAIN groups
        /\ said.reaches
        /\ said.args # <<>>
        /\ groups' = [h \in DOMAIN groups \cup {g} |->
                        IF h \in DOMAIN groups THEN groups[h]
                        ELSE [enabled |-> TRUE, aliases |-> {},
                              original |-> AsCommand(said.args)]]
        /\ UNCHANGED aliases
        /\ Install

AddAliasGroup(g, words) ==
    LET said  == Heard(<<"!am", "alg", "add", g>>, words)
        names == NamesIn(said.args)
        new   == Accepted(names, groups[g].original)
    IN  /\ g \in DOMAIN groups
        /\ said.reaches
        /\ said.args # <<>>
        /\ groups' = [groups EXCEPT ![g].aliases = @ \cup {names[i] : i \in new}]
        /\ UNCHANGED aliases
        /\ InstallIf(new = DOMAIN names)

\* The original is not compared with the group's names.
SetAliasGroup(g, original) ==
    LET said == Heard(<<"!am", "alg", "set", g>>, original)
    IN  /\ g \in DOMAIN groups
        /\ said.reaches
        /\ said.args # <<>>
        /\ groups' = [groups EXCEPT ![g].original = AsCommand(said.args)]
        /\ UNCHANGED aliases
        /\ Install

\* With no names, the whole group.
DelAliasGroup(g, words) ==
    LET said == Heard(<<"!am", "alg", "del", g>>, words)
    IN  /\ g \in DOMAIN groups
        /\ said.reaches
        /\ groups' = IF said.args = <<>> THEN Restrict(groups, DOMAIN groups \ {g})
                     ELSE [groups EXCEPT ![g].aliases = @ \ ToSet(NamesIn(said.args))]
        /\ UNCHANGED aliases
        /\ Install

OnOffAliasGroup(g, enabled) ==
    /\ g \in DOMAIN groups
    /\ Heard(<<"!am", "alg", IF enabled THEN "on" ELSE "off", g>>, <<>>)
          = [reaches |-> TRUE, args |-> <<>>]
    /\ groups' = [groups EXCEPT ![g].enabled = enabled]
    /\ UNCHANGED aliases
    /\ Install

\* DelCommand: the command's single aliases go with it, from the table.
ForgetAliasesOf(command) ==
    /\ aliases' = Restrict(aliases, {n \in DOMAIN aliases : aliases[n] # command})
    /\ stale' = (stale \/ aliases' # aliases)
    /\ UNCHANGED <<groups, installed>>

AliasInit ==
    /\ aliases = <<>>
    /\ groups = <<>>
    /\ installed \in Merged(aliases, groups)
    /\ stale = FALSE

\* message.New
Reload == UNCHANGED <<aliases, groups>> /\ Install

AliasCommand ==
    \/ \E words \in Names \cup {<<l>> : l \in DOMAIN Lists} :
          \/ \E original \in Originals : AddAlias(words, original)
          \/ DelAlias(words)
          \/ \E g \in GroupNames : AddAliasGroup(g, words) \/ DelAliasGroup(g, words)
    \/ \E g \in GroupNames :
          \/ \E original \in Originals : CreateAliasGroup(g, original) \/ SetAliasGroup(g, original)
          \/ DelAliasGroup(g, <<>>)
          \/ \E enabled \in BOOLEAN : OnOffAliasGroup(g, enabled)

-----------------------------------------------------------------------------

AliasTypeOK ==
    /\ \A table \in {aliases, installed} :
          table \in [DOMAIN table -> Phrase] /\ DOMAIN table \subseteq Phrase
    /\ groups \in [DOMAIN groups -> Group] /\ DOMAIN groups \subseteq GroupNames
    /\ stale \in BOOLEAN

\* The group has itself what its names stand for.
OfItself(grps, g) == g \in DOMAIN grps /\ grps[g].original \in grps[g].aliases

\* Only by setting what a group stands for to one of its own names can an alias
\* come to stand for itself, whatever the rewriting makes of the commands: a single
\* alias never does, and what the trie replaces by itself is such a group's, or
\* was written so among the global aliases.
SelfAliasOnlyBySet ==
    [][/\ \A n \in DOMAIN aliases' : aliases'[n] # n
       /\ \A g \in DOMAIN groups' :
             OfItself(groups', g) /\ ~ OfItself(groups, g) =>
                g \in DOMAIN groups /\ groups'[g].original # groups[g].original
       /\ \A n \in DOMAIN installed' :
             installed'[n] = n =>
                \/ \E g \in DOMAIN groups' :
                      OfItself(groups', g) /\ groups'[g].enabled /\ groups'[g].original = n
                \/ n \in DOMAIN GlobalAliases /\ GlobalAliases[n] = n]_aliasVars

\* No alias at all does.  The code breaks it by SetAliasGroup.
NoSelfAlias ==
    /\ \A n \in DOMAIN aliases : aliases[n] # n
    /\ \A g \in DOMAIN groups : ~ OfItself(groups, g)

\* The trie is what the tables say, whatever commands were given and rewritten,
\* but after the deletion of a command or a refused list.
TrieFollowsTables == ~ stale => installed \in Merged(aliases, groups)

\* The trie is what the tables say.  The code breaks it in these two cases.
TrieIsTables == installed \in Merged(aliases, groups)

\* Each alias can be deleted by its name.  The code breaks it: the command that
\* deletes it is rewritten first, and names what the alias stands for.
AliasesCanBeDeleted ==
    \A n \in DOMAIN aliases :
        Heard(<<"!am", "al", "del">>, n) = [reaches |-> TRUE, args |-> n]

\* What an alias stands for is no alias.  The code breaks it: only the original
\* of a new alias is looked up, and later it may become an alias itself.
NoChains == \A n \in DOMAIN aliases : aliases[n] \notin DOMAIN aliases
=============================================================================
