SPECIFICATION NukeSpec
CONSTANTS
    d1 = d1
    d2 = d2
    m1 = m1
    m2 = m2
    Runs = {r1, r2}
    Defs = {d1, d2}
    Msgs = {m1, m2}
    Hits <- MCHits
    Nil = Nil
INVARIANT PunishedOnce
PROPERTY CommandsEndScrollback
CHECK_DEADLOCK FALSE
