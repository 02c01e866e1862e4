SPECIFICATION FairSpec
CONSTANTS
    r = r
    p = p
    Pages <- MCPages
    Cells <- MCCells
    Rings = {r}
    Zero = Zero
    Data = {Zero, A}
INVARIANTS NoOrphanFault SourceMapped
PROPERTIES ImplementsLazyMemory FaultsServed CleanupEnds
