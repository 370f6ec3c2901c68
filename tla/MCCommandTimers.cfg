SPECIFICATION Spec
CONSTANTS
    Ids = {c, d}
    Args <- MCArgs
    Texts = {x}
    Objs = {o1, o2}
    None = None
    SlotsCount = 3
    Intervals = {1, 2}
    MaxElapsed = 3
    MaxPending = 1
SYMMETRY MCSymmetry
INVARIANTS NeverOverdue OffIsQuiet OnIsScheduled
PROPERTY ImplementsCountdown
