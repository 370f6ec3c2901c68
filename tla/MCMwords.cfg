SPECIFICATION Spec
CONSTANTS
    a = a
    b = b
    g = g
    h = h
    Workers = {w1, w2}
    Names = {a, b}
    Groups = {g, h}
    Messages <- MCMessages
    StartConfigs <- MCStartConfigs
    OptionSets <- MCOptionSets
    None = None
    MaxRules = 2
    MaxCommands = 1
SYMMETRY MCSymmetry
INVARIANTS TypeOK ExemptionsHold StaleOnlyByOverlap
