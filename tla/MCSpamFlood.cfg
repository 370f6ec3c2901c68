SPECIFICATION FloodSpec
CONSTANTS
    MaxMsgs = 4
    Texts = {spam, other}
    Inners = {i1, i2, i3}
    NoCache = NoCache
    Concurrency = 2
    Limit = 2
    MinGap = 2
    IsVip = FALSE
    Mode = 2
    Off = {}
    Settings <- MCSettings
    Changing = {"paused"}
    MaxForgotten = 1
SYMMETRY MCSymmetry
INVARIANTS CountedOnce FloodPunished
CHECK_DEADLOCK FALSE
