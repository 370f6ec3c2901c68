--------------------------- MODULE MCCommandTable ---------------------------
(* One command and one word that is none, either of which can be an alias   *)
(* of the other, a list that is refused in the middle, a group, a global    *)
(* alias, and two messages handled at once.  Of the words, none but "a",    *)
(* "d" and the commands comes first in what an alias stands for.            *)
EXTENDS CommandTable

a == <<"a">>
c == <<"!c">>
d == <<"!d">>

MCNames     == {c, d}
MCOriginals == {c, <<"d">>}
MCCommands  == {c}
MCLists     == "!d,!d,!c" :> <<d, d, c>>
MCGlobal    == a :> c
MCWords     == Keywords \cup {"a", "!a", "d", "!c", "!d", "g"} \cup DOMAIN MCLists
MCBanged    == "a" :> "!a" @@ "d" :> "!d" @@ [w \in MCWords |-> w]

Symmetry == Permutations(Handlers)
=============================================================================
