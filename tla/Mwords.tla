------------------------------- MODULE Mwords -------------------------------
(***************************************************************************)
(* Mute words: the admin commands that edit them                           *)
(* (adapters/message/admin/mword.go), the list of rules built from them    *)
(* and the cache of verdicts in front of it (domain/template/mword.go,     *)
(* options.go), read by concurrent checks of chat messages.                *)
(*                                                                         *)
(* A command runs under the configuration lock: it edits the settings and  *)
(* calls Update, which clears the cache, merges options and installs the   *)
(* new rules last.  Checks take no lock.  A comma-separated list of words  *)
(* is that many edits; a text is the set of the words and expressions it   *)
(* contains.  Of the options the model keeps the stream mode, -first and   *)
(* -vip (-sub and the matching options are handled alike); of the          *)
(* punishments, whether they exempt ("none") or punish.                    *)
(***************************************************************************)
EXTENDS Naturals, SequencesExt, FiniteSetsExt

CONSTANTS
    Workers,       \* handlers of chat messages
    Names,         \* words, and names of regular expressions
    Groups,        \* names of groups of mute words
    Messages,      \* messages: text (the set of names it contains), vip, first
    StartConfigs,  \* settings the program may find on disk
    OptionSets,    \* sets of flags a command may be given
    None,
    MaxRules,      \* model bound: single mute words, and words of a group
    MaxCommands    \* model bound on the commands given

Flags == {"always", "online", "offline", "first", "nofirst", "vip", "novip"}

ASSUME MwordsAssumption ==
    /\ Messages \subseteq [text : SUBSET Names, vip : BOOLEAN, first : BOOLEAN]
    /\ OptionSets \subseteq SUBSET Flags
    /\ None \notin Names \cup Groups
    /\ Names \cap Groups = {}
    /\ IsFiniteSet(Groups)

ASSUME MwordsBounds == MaxRules \in Nat /\ MaxCommands \in Nat

VARIABLES
    singles,    \* config: the single mute words, in order
    groups,     \* config: group -> its settings, or None
    rules,      \* t.mwords
    installing, \* Update has cleared the cache and not yet set t.mwords
    cache,      \* <<text, vip>> -> the map of verdicts cached for it, or None
    uncached,   \* the other maps in use: which checks hold them
    live,       \* stream.IsLive()
    check,      \* what each worker is checking
    commands    \* how many commands have been given

config == <<singles, groups>>
vars   == <<config, rules, installing, cache, uncached, live, check, commands>>

\* An option of type *bool is unset, yes or no.  "shared": First and NoVip
\* point to the one variable MergeMword took the address of for both.
Flag    == {"unset", "yes", "no"}
Options == [mode : {"online", "offline", "always"}, first : Flag,
            novip : Flag, shared : BOOLEAN]
NoOptions == [mode |-> "online", first |-> "unset", novip |-> "unset",
              shared |-> FALSE]

Punishments == {"none", "punish"}

\* A word of the settings; in a group its punishment may be the group's.
Mword == [name : Names, re : BOOLEAN, pun : Punishments \cup {None},
          opt : Options \cup {None}]
Group == [enabled : BOOLEAN, pun : Punishments, opt : Options \cup {None},
          words : Seq(Mword)]

\* An installed rule.  owner: the word or group whose Options object it
\* points to, None when it points to one of its own or to nil.
Rule == [name : Names, re : BOOLEAN, pun : Punishments,
         opt : Options \cup {None}, owner : Names \cup Groups \cup {None}]
NoRule == [name |-> None]

\* What settings may be: the punishment of a single word is its own.
IsConfig(ss, gs) ==
    /\ ss \in Seq({word \in Mword : word.pun # None})
    /\ gs \in [Groups -> Group \cup {None}]

ASSUME StartAssumption ==
    \A saved \in StartConfigs : IsConfig(saved.singles, saved.groups)

Keys     == {<<msg.text, msg.vip>> : msg \in Messages}

\* A map[bool]CacheMword: a verdict for first messages, one for all others.
\* "stale": a check that overlapped a command has written to it.
CacheMap == [verdict : [BOOLEAN -> Rule \cup {NoRule, None}], stale : BOOLEAN]
EmptyMap == [verdict |-> [b \in BOOLEAN |-> None], stale |-> FALSE]

\* None is no value of another kind.
ASSUME MarkerAssumption ==
    None \notin Punishments \cup Options \cup Group \cup Rule \cup {NoRule} \cup CacheMap
----------------------------------------------------------------------------
\* Options.MergeMword(dst, src): of contradicting flags the later one wins.
MergeMword(dst, src) ==
    LET old   == IF dst = None THEN NoOptions ELSE dst
        mode  == CASE "offline" \in src -> "offline"
                   [] src \cap {"online", "offline"} = {"online"} -> "online"
                   [] src \cap {"always", "online", "offline"} = {"always"} -> "always"
                   [] OTHER -> old.mode
        Set(yes, no) == IF yes \in src THEN "yes" ELSE IF no \in src THEN "no" ELSE "unset"
        first == Set("first", "nofirst")
        novip == IF "vip" \in src THEN "no" ELSE Set("novip", "vip")
    IN IF dst = None /\ src = {} THEN None
       ELSE [mode   |-> mode,
             first  |-> IF first = "unset" THEN old.first ELSE first,
             novip  |-> IF novip = "unset" THEN old.novip ELSE novip,
             shared |-> IF first = "unset" /\ novip = "unset" THEN old.shared
                        ELSE first = novip]

\* The flags Update makes of a group word's own options.  They are collected
\* in a map keyed by pointer: of two options that share one, the last stays.
FlagsOf(opt) ==
    (IF opt.shared \/ opt.first = "unset" THEN {}
     ELSE {IF opt.first = "yes" THEN "first" ELSE "nofirst"})
    \cup (IF opt.novip = "unset" THEN {}
          ELSE {IF opt.novip = "yes" THEN "novip" ELSE "vip"})

OwnFlags(word) == IF word.opt = None THEN {} ELSE FlagsOf(word.opt)

\* The group's Options object after Update: every word's flags are merged
\* into it, in place.
GroupOptions(group) ==
    IF group.opt = None THEN None
    ELSE LET merged[i \in 0 .. Len(group.words)] ==
               IF i = 0 THEN group.opt
               ELSE MergeMword(merged[i - 1], OwnFlags(group.words[i]))
         IN merged[Len(group.words)]

MergedGroups(gs) ==
    [g \in Groups |-> IF gs[g] # None /\ gs[g].enabled
                      THEN [gs[g] EXCEPT !.opt = GroupOptions(gs[g])]
                      ELSE gs[g]]

SingleRule(word) ==
    [name |-> word.name, re |-> word.re, pun |-> word.pun, opt |-> word.opt,
     owner |-> IF word.opt = None \/ word.re THEN None ELSE word.name]

\* A word with options of its own gets the group's merged object, or a fresh
\* one when the group has none.
GroupRule(g, group, word) ==
    [name |-> word.name, re |-> word.re,
     pun |-> IF word.pun = None THEN group.pun ELSE word.pun,
     opt |-> IF group.opt # None THEN group.opt ELSE MergeMword(None, OwnFlags(word)),
     owner |-> IF group.opt # None THEN g ELSE None]

\* sort.Slice: rules that exempt first, then those with an enabled option.
\* Up to 12 rules the sort is stable.
Rank(rule) == <<rule.pun, rule.opt # None /\ "yes" \in {rule.opt.first, rule.opt.novip}>>

Ranked(unsorted, rank) ==
    LET picked[i \in 0 .. Len(unsorted)] ==
          IF i = 0 THEN <<>>
          ELSE IF Rank(unsorted[i]) = rank THEN Append(picked[i - 1], unsorted[i])
          ELSE picked[i - 1]
    IN picked[Len(unsorted)]

SortedRules(unsorted) ==
    (Ranked(unsorted, <<"none", TRUE>>) \o Ranked(unsorted, <<"none", FALSE>>))
      \o (Ranked(unsorted, <<"punish", TRUE>>) \o Ranked(unsorted, <<"punish", FALSE>>))

SingleRules(ss) == [i \in 1 .. Len(ss) |-> SingleRule(ss[i])]
RulesOf(g, group) ==
    IF group = None \/ ~group.enabled THEN <<>>
    ELSE [i \in 1 .. Len(group.words) |-> GroupRule(g, group, group.words[i])]

\* The rules Update builds; groups are visited in the order of a Go map.
BuiltRules(ss, gs, order) ==
    LET built[i \in 0 .. Len(order)] ==
          IF i = 0 THEN SingleRules(ss)
          ELSE built[i - 1] \o RulesOf(order[i], gs[order[i]])
    IN SortedRules(built[Len(order)])

Orders == SetToSeqs(Groups)

\* Options changed in place show in the installed rules that point to them.
Repointed(old, ss, gs) ==
    LET Current(rule) ==
          IF rule.owner \in Groups
          THEN {gs[g].opt : g \in {h \in Groups : h = rule.owner /\ gs[h] # None}}
          ELSE {ss[i].opt : i \in {j \in DOMAIN ss : ss[j].name = rule.owner /\ ~ss[j].re}}
    IN [i \in DOMAIN old |->
          IF Current(old[i]) = {} THEN old[i]
          ELSE [old[i] EXCEPT !.opt = CHOOSE o \in Current(old[i]) : TRUE]]

\* matchMwordRule, its text matching and subscriber option apart.
Matches(rule, msg, online) ==
    /\ rule.name \in msg.text
    /\ LET mode == IF rule.opt = None THEN "online" ELSE rule.opt.mode
       IN mode = "always" \/ (mode = "online") = online
    /\ rule.opt # None =>
         /\ rule.opt.novip = "yes" => ~msg.vip
         /\ rule.opt.first = "yes" => msg.first

FirstOnly(rule) == rule # NoRule /\ rule.opt # None /\ rule.opt.first = "yes"

\* getCacheKey
Key(msg) == <<msg.text, msg.vip>>
----------------------------------------------------------------------------
NoCheck == [at |-> "idle"]
Check == [at : {"scan", "remember"}, msg : Messages, online : BOOLEAN,
          found : Rule \cup {NoRule},
          cached : BOOLEAN,    \* the map it holds is the one in the cache
          overlap : BOOLEAN]   \* a command ran since the cache was read

\* The checks that hold the map cached for key, and the maps that checks go on
\* holding when the keys lose theirs.
Holders(key) ==
    {w \in Workers : check[w] # NoCheck /\ check[w].cached /\ Key(check[w].msg) = key}
Evicted(keys) ==
    {[by |-> Holders(k), map |-> cache[k]] : k \in {j \in keys : Holders(j) # {}}}

\* Mutant: the verdicts are kept when the rules change.
ClearAllForgotten == cache

\* t.cache.ClearAll()
ClearAll == [k \in Keys |-> None]

\* Settings as read from disk, where no two options share a variable.
Reloaded(opt) == IF opt = None THEN None ELSE [opt EXCEPT !.shared = FALSE]
ReloadedWords(words) == [i \in DOMAIN words |-> [words[i] EXCEPT !.opt = Reloaded(@)]]
ReloadedGroups(gs) ==
    [g \in Groups |-> IF gs[g] = None THEN None
                      ELSE [gs[g] EXCEPT !.opt = Reloaded(@), !.words = ReloadedWords(@)]]

\* NewMword, with the settings read from disk.
Init ==
    /\ \E saved \in StartConfigs :
         /\ singles = ReloadedWords(saved.singles)
         /\ groups = MergedGroups(ReloadedGroups(saved.groups))
    /\ \E order \in Orders : rules = BuiltRules(singles, groups, order)
    /\ installing = FALSE
    /\ cache = [k \in Keys |-> None]
    /\ uncached = {}
    /\ live \in BOOLEAN
    /\ check = [w \in Workers |-> NoCheck]
    /\ commands = 0

\* A command: its edit of the settings and the first half of Update, up to
\* the installation of the rules.
Update(ss, gs) ==
    /\ singles' = ss
    /\ groups' = MergedGroups(gs)
    /\ rules' = Repointed(rules, ss, groups')
    /\ installing' = TRUE
    /\ cache' = ClearAll
    /\ uncached' = uncached \cup Evicted(Keys)
    /\ check' = [w \in Workers |-> IF check[w] = NoCheck THEN NoCheck
                     ELSE [check[w] EXCEPT !.cached = FALSE, !.overlap = TRUE]]
    /\ commands' = commands + 1
    /\ UNCHANGED live

\* "t.mwords = mws"
Install ==
    /\ installing
    /\ \E order \in Orders : rules' = BuiltRules(singles, groups, order)
    /\ installing' = FALSE
    /\ UNCHANGED <<config, cache, uncached, live, check, commands>>

\* Index of the single word, or of the group's word, of that name; 0 if none.
IndexOf(words, name) ==
    SelectInSeq(words, LAMBDA w : w.name = name /\ ~w.re)
IndexInGroup(words, name) == SelectInSeq(words, LAMBDA w : w.name = name)

AddRegexp(name, pun, flags) ==
    /\ Len(singles) < MaxRules
    /\ Update(Append(singles, [name |-> name, re |-> TRUE, pun |-> pun,
                               opt |-> MergeMword(None, flags)]), groups)

AddMword(name, pun, flags) ==
    IF IndexOf(singles, name) # 0 THEN Update(singles, groups)
    ELSE /\ Len(singles) < MaxRules
         /\ Update(Append(singles, [name |-> name, re |-> FALSE, pun |-> pun,
                                    opt |-> MergeMword(None, flags)]), groups)

\* Mutant: a command without punishments leaves none.
EditedAll(word, pun, flags) == [word EXCEPT !.pun = pun, !.opt = MergeMword(@, flags)]

\* pun: None when the command gives no punishment.
Edited(word, pun, flags) ==
    [word EXCEPT !.pun = IF pun = None THEN @ ELSE pun,
                 !.opt = MergeMword(@, flags)]

SetMword(name, pun, flags) ==
    LET i == IndexOf(singles, name)
    IN Update(IF i = 0 THEN singles ELSE [singles EXCEPT ![i] = Edited(@, pun, flags)],
              groups)

DelMword(name) ==
    LET i == IndexOf(singles, name)
    IN Update(IF i = 0 THEN singles ELSE RemoveAt(singles, i), groups)

CreateMwordGroup(g, pun, flags) ==
    /\ groups[g] = None
    /\ Update(singles, [groups EXCEPT ![g] =
                 [enabled |-> TRUE, pun |-> pun, opt |-> MergeMword(None, flags),
                  words |-> <<>>]])

\* The words already there are looked for among the single ones, so a group
\* may hold a word twice.
AddMwordGroup(g, name, re) ==
    /\ groups[g] # None
    /\ Len(groups[g].words) < MaxRules
    /\ Update(singles,
              IF ~re /\ IndexOf(singles, name) # 0 THEN groups
              ELSE [groups EXCEPT ![g].words =
                       Append(@, [name |-> name, re |-> re, pun |-> None, opt |-> None])])

GlobalSetMwordGroup(g, pun, flags) ==
    /\ groups[g] # None
    /\ Update(singles, [groups EXCEPT ![g] = Edited(@, pun, flags)])

SetMwordGroup(g, name, pun, flags) ==
    /\ groups[g] # None
    /\ LET i == IndexOf(groups[g].words, name)
       IN Update(singles, IF i = 0 THEN groups
                          ELSE [groups EXCEPT ![g].words[i] = Edited(@, pun, flags)])

DelMwordGroup(g, name) ==
    /\ groups[g] # None
    /\ LET i == IndexInGroup(groups[g].words, name)
       IN Update(singles, IF i = 0 THEN groups
                          ELSE [groups EXCEPT ![g].words = RemoveAt(@, i)])

DelWholeGroup(g) ==
    /\ groups[g] # None
    /\ Update(singles, [groups EXCEPT ![g] = None])

OnOffMwordGroup(g, on) ==
    /\ groups[g] # None
    /\ Update(singles, [groups EXCEPT ![g].enabled = on])

Command ==
    /\ ~installing
    /\ commands < MaxCommands
    /\ \/ \E name \in Names, pun \in Punishments, flags \in OptionSets :
             AddMword(name, pun, flags) \/ AddRegexp(name, pun, flags)
       \/ \E name \in Names, pun \in Punishments \cup {None}, flags \in OptionSets :
             SetMword(name, pun, flags)
       \/ \E name \in Names : DelMword(name)
       \/ \E g \in Groups :
             \/ \E pun \in Punishments, flags \in OptionSets : CreateMwordGroup(g, pun, flags)
             \/ \E name \in Names, re \in BOOLEAN : AddMwordGroup(g, name, re)
             \/ \E pun \in Punishments \cup {None}, flags \in OptionSets :
                   \/ GlobalSetMwordGroup(g, pun, flags)
                   \/ \E name \in Names : SetMwordGroup(g, name, pun, flags)
             \/ \E name \in Names : DelMwordGroup(g, name)
             \/ DelWholeGroup(g)
             \/ \E on \in BOOLEAN : OnOffMwordGroup(g, on)
----------------------------------------------------------------------------
\* Mutant: the verdict for first messages serves every message.
CachedVerdictOfAnyone(match, msg) ==
    IF match[TRUE] # None THEN match[TRUE] ELSE match[FALSE]

\* Check, up to the cache: a verdict cached for first messages serves them
\* only; the one cached for the others serves every message.
CachedVerdict(match, msg) ==
    IF match[TRUE] # None /\ msg.first THEN match[TRUE] ELSE match[FALSE]

Lookup(key) == IF cache[key] = None THEN EmptyMap.verdict ELSE cache[key].verdict

\* A message whose verdict is cached changes nothing.  Another check may hold
\* the very map: what one writes to it, the other sees.
CheckUncached(w, msg) ==
    LET cached == cache[Key(msg)] # None
    IN /\ check[w] = NoCheck
       /\ CachedVerdict(Lookup(Key(msg)), msg) = None
       /\ check' = [check EXCEPT ![w] =
             [at |-> "scan", msg |-> msg, online |-> live, found |-> NoRule,
              cached |-> cached, overlap |-> installing]]
       /\ uncached' = uncached \cup (IF cached THEN {} ELSE {[by |-> {w}, map |-> EmptyMap]})
       /\ UNCHANGED <<config, rules, installing, cache, live, commands>>

FirstMatch(msg, online) ==
    LET i == SelectInSeq(rules, LAMBDA r : Matches(r, msg, online))
    IN IF i = 0 THEN NoRule ELSE rules[i]

\* "for _, mw := range t.mwords"
Scan(w) ==
    /\ check[w].at = "scan"
    /\ check' = [check EXCEPT ![w].at = "remember",
                              ![w].found = FirstMatch(check[w].msg, check[w].online)]
    /\ UNCHANGED <<config, rules, installing, cache, uncached, live, commands>>

\* "match[isFirst] = ..." and cache.Set, which puts the map back that a
\* command or the expiry may have taken out.
Remember(w) ==
    LET own  == check[w]
        key  == Key(own.msg)
        held == IF own.cached THEN [by |-> Holders(key), map |-> cache[key]]
                ELSE CHOOSE u \in uncached : w \in u.by
    IN /\ own.at = "remember"
       /\ cache' = [cache EXCEPT ![key] =
             [held.map EXCEPT !.verdict[FirstOnly(own.found)] = own.found,
                              !.stale = @ \/ own.overlap]]
       /\ uncached' = IF own.cached THEN uncached
                      ELSE (uncached \ {held}) \cup Evicted({key})
       /\ check' = [v \in Workers |->
             IF v = w THEN NoCheck
             ELSE IF v \in held.by THEN [check[v] EXCEPT !.cached = TRUE]
             ELSE IF v \in Holders(key) THEN [check[v] EXCEPT !.cached = FALSE]
             ELSE check[v]]
       /\ UNCHANGED <<config, rules, installing, live, commands>>

\* An entry expires three minutes after its last use, or is evicted.
Forget(key) ==
    /\ cache[key] # None
    /\ cache' = [cache EXCEPT ![key] = None]
    /\ uncached' = uncached \cup Evicted({key})
    /\ check' = [w \in Workers |-> IF w \in Holders(key)
                                   THEN [check[w] EXCEPT !.cached = FALSE]
                                   ELSE check[w]]
    /\ UNCHANGED <<config, rules, installing, live, commands>>

StreamChanges ==
    /\ live' = ~live
    /\ UNCHANGED <<config, rules, installing, cache, uncached, check, commands>>

Restart ==
    /\ ~installing
    /\ singles' = ReloadedWords(singles)
    /\ groups' = MergedGroups(ReloadedGroups(groups))
    /\ \E order \in Orders : rules' = BuiltRules(singles', groups', order)
    /\ cache' = ClearAll
    /\ uncached' = {}
    /\ check' = [w \in Workers |-> NoCheck]
    /\ UNCHANGED <<installing, live, commands>>

Next ==
    \/ Command
    \/ Install
    \/ \E w \in Workers :
          \/ \E msg \in Messages : CheckUncached(w, msg)
          \/ Scan(w)
          \/ Remember(w)
    \/ \E key \in Keys : Forget(key)
    \/ StreamChanges
    \/ Restart

Spec == Init /\ [][Next]_vars
----------------------------------------------------------------------------
(* The shape of the settings, of the rules, of what is cached and of what  *)
(* the checks of MwordTemplate.Check hold.                                 *)
TypeOK ==
    /\ IsConfig(singles, groups)
    /\ rules \in Seq(Rule)
    /\ cache \in [Keys -> CacheMap \cup {None}]
    /\ uncached \subseteq [by : SUBSET Workers, map : CacheMap]
    /\ \A w \in Workers : check[w] # NoCheck =>
          IF check[w].cached THEN cache[Key(check[w].msg)] # None
          ELSE Cardinality({u \in uncached : w \in u.by}) = 1
    /\ check \in [Workers -> Check \cup {NoCheck}]
    /\ <<installing, live, commands>> \in BOOLEAN \X BOOLEAN \X (0..MaxCommands)

(* Whatever the cache, the commands and the other checks do, the verdict   *)
(* Check returns for a message comes from a rule that did not exempt it    *)
(* when it was matched: a rule for first messages judges no other, and one *)
(* that leaves VIPs alone judges no VIP, though one cached map serves both *)
(* kinds of messages (template/mword.go:18 and 144-187).                   *)
ExemptionsHold ==
    \A msg \in Messages :
      LET verdict == CachedVerdict(Lookup(Key(msg)), msg)
      IN verdict \notin {None, NoRule} /\ verdict.opt # None =>
           /\ verdict.opt.first = "yes" => msg.first
           /\ verdict.opt.novip = "yes" => ~msg.vip

\* The verdict is one the installed rules give for the message, on or off
\* stream: an exempting rule that applies wins.
Justified(verdict, msg) ==
    \E online \in BOOLEAN :
      LET Applies(r) == Matches(r, msg, online)
          Exempting  == {r \in ToSet(rules) : r.pun = "none" /\ Applies(r)}
      IN IF verdict = NoRule THEN ~\E r \in ToSet(rules) : Applies(r)
         ELSE /\ verdict \in ToSet(rules)
              /\ Applies(verdict)
              /\ verdict.pun = "none" \/ Exempting = {}

(* Once the rules are installed, a cached verdict is one that they give:   *)
(* only a check that overlapped the command can have left an older one     *)
(* (Update clears the cache before the rules change, and a check may write *)
(* what it found before), and an exempting rule beats the others           *)
(* (template/mword.go:45-187).                                             *)
StaleOnlyByOverlap ==
    ~installing =>
      \A key \in Keys, first \in BOOLEAN :
        LET verdict == Lookup(key)[first]
        IN verdict # None /\ ~cache[key].stale =>
             Justified(verdict, [text |-> key[1], vip |-> key[2], first |-> first])

(* Not so: a rule for first messages applies to every first message        *)
(* (template/mword.go:18).  A verdict cached for the others, or for no     *)
(* rule at all, hides it.                                                  *)
FirstRuleNotMasked ==
    ~installing => \A msg \in Messages :
      LET cached == CachedVerdict(Lookup(Key(msg)), msg)
      IN cached # None /\ ~cache[Key(msg)].stale => Justified(cached, msg)

(* Not so: a verdict given after the stream has gone on or off line is the *)
(* one the rules give now (config/model.go's mode of a mute word): the     *)
(* cache does not know of the stream.                                      *)
VerdictFollowsStream ==
    ~installing => \A key \in Keys :
      LET msg == [text |-> key[1], vip |-> key[2], first |-> FALSE]
          verdict == Lookup(key)[FALSE]
      IN verdict # None /\ ~cache[key].stale => verdict = FirstMatch(msg, live)

(* Not so: the options of a group are its own ("global options",           *)
(* config/model.go:133), changed by the command on the group only.  Update *)
(* merges those of its words into them.                                    *)
GroupOptionsAreGlobal ==
    [][\A g \in Groups :
         groups[g] # None /\ groups'[g] # None /\ groups[g].opt # groups'[g].opt =>
           \E pun \in Punishments \cup {None}, flags \in OptionSets :
             groups'[g] = Edited(groups[g], pun, flags)]_vars

(* Not so: a restart installs the rules that were in force.  Two options   *)
(* of a group's word set by one command share a variable until then, and   *)
(* Update sees one of them (template/mword.go:73-91).                      *)
RestartKeepsRules ==
    [][Restart => [i \in DOMAIN rules |-> [rules[i] EXCEPT !.opt = Reloaded(@)]]
                   = [i \in DOMAIN rules' |-> [rules'[i] EXCEPT !.opt = Reloaded(@)]]]_vars
=============================================================================
