SPECIFICATION ImageSpec
CONSTANTS
    NumIds = 2
    Refs = {a}
    Files = {f, g}
    Calls = {k1, k2}
    None = None
SYMMETRY Symmetry
INVARIANTS  ContainerIsComplete
