SPECIFICATION Spec
CONSTANTS
    Num <- RingSizes
    IdxMod = 4
    MaxTap = 1
INVARIANTS DescriptorsConserved
