------------------------------ MODULE MCMwords ------------------------------
(* One text that two mute words match, two groups, two concurrent checks   *)
(* of messages: a first one, a later one and a VIP's.                      *)
EXTENDS Mwords, TLC

CONSTANTS a, b, g, h

MCMessages ==
    {[text |-> {a, b}, vip |-> FALSE, first |-> TRUE],
     [text |-> {a, b}, vip |-> FALSE, first |-> FALSE],
     [text |-> {a, b}, vip |-> TRUE, first |-> FALSE]}

MCOptionSets == {{"always", "first", "novip"}}

Word(name, pun, opt) == [name |-> name, re |-> FALSE, pun |-> pun, opt |-> opt]
Opt(first, novip) == [mode |-> "online", first |-> first, novip |-> novip, shared |-> FALSE]

\* A single word that punishes; a group whose word exempts first messages.
MCStartConfigs ==
    {[singles |-> <<Word(a, "punish", None)>>,
      groups |-> g :> [enabled |-> TRUE, pun |-> "punish", opt |-> None,
                       words |-> <<Word(b, "none", Opt("yes", "no"))>>]
                 @@ h :> None]}

MCSymmetry == Permutations(Workers)
=============================================================================
