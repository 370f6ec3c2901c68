SPECIFICATION StreamSpec
CONSTANTS
    Workers = {w1, w2}
    Games = {demos, other}
    Demos = demos
    MaxTime = 3
    MaxChanges = 1
INVARIANT StreamTimes
PROPERTY CatchesUp
