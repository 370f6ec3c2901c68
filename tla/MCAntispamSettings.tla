------------------------- MODULE MCAntispamSettings -------------------------
(* One channel with default settings or an old file; the values at which    *)
(* the ranges of handlers and of validate end, for one field of each kind.  *)
EXTENDS AntispamSettings, TLC

Value(group, field, value) == [group |-> group, field |-> field, value |-> value]

MCInputs ==
    {Value("default", "similarity", v) : v \in {0, 7, NaN}}
      \cup {Value("vip", "limit", v) : v \in {1, 15, 16}}
      \cup {Value("emote", "length", v) : v \in {15, 51}}
      \cup {Value("emote", "lengthPunishment", TRUE)}
=============================================================================
