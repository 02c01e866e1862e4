SPECIFICATION FairSpec
CONSTANTS
    Num <- OneEntry
    IdxMod = 2
    MaxTap = 1
INVARIANTS NoStrandedCompletion
PROPERTIES TxReturns
