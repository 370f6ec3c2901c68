SPECIFICATION Spec
CONSTANTS
    Workers = {w1, w2}
    Kinds = {"mword"}
    Inners = {i1, i2, i3}
    IdleLimit = 3
    Default = 2
    Vip = 2
    Emotes = 2
    DurationReset <- MCDurationReset
    None = None
    Never = Never
    MaxOffences = 3
    MaxAge = 3
SYMMETRY MCSymmetry
INVARIANTS TypeOK NeverHarsherThanEarned
PROPERTY LevelOnlyForgotten
CHECK_DEADLOCK FALSE
